---- MODULE Spec2Model ----
(***************************************************************************)
(* Querymind: the conversation loop (Querymind/agent.py), the tool         *)
(* dispatcher, the scoped database session and the four database tools     *)
(* (Querymind/tools.py), with the SQLite file they work on; the CLI        *)
(* (main.py); the chat, the shared database handle and the persistence of  *)
(* chat sessions of the web front end (app.py); the accounts and the login *)
(* gate (auth.py, app.py).                                                 *)
(*                                                                         *)
(* Conventions.  A text is modelled as the sequence of its lines, each     *)
(* line a string ("\n".join(xs) is xs, the empty text is <<>>).  A Python  *)
(* value is a tagged record (PyStr, PyInt, PyNone).  The file is its       *)
(* kind and, per table, the number of rows (Absent: no such table); row i  *)
(* of a table is the one-column tuple (i,).                                *)
(*                                                                         *)
(* Specifications.  Spec: the CLI with the loop.  FairSpec: Spec with the  *)
(* program always taking its next step.  ToolSpec: the dispatcher on its   *)
(* own.  StoreSpec: save_session and load_session on their own.  WebSpec:  *)
(* the chat of one browser session beside the script runs of another.      *)
(* ScopeSpec: with_sql_cursor on its own.  OwnershipSpec: saving, loading, *)
(* listing and deleting chats of two users.  ResumeSpec: the chat of one   *)
(* browser session with the sidebar's list of chats.  AccountSpec:         *)
(* registration, login, account deletion and saves.  GateSpec: the script  *)
(* runs of one browser session at the login gate.                          *)
(***************************************************************************)
EXTENDS Integers, Sequences, FiniteSets, TLC

VARIABLES
    DATABASE_PATH,   \* Config.Path.DATABASE_PATH: "None" or the path of the file
    file,            \* the SQLite file at that path: [kind, tables]
    history,         \* the caller's conversation state (main.py: history)
    pc,              \* position of the running program
    query,           \* ask: the query of the current turn
    max_iterations,  \* ask: the ceiling of the current turn
    n_iterations,    \* ask: the iteration counter
    messages,        \* ask: the local message sequence
    response,        \* ask: the assistant message whose tool calls are dispatched
    call_index,      \* ask: how many tool calls of response have been dispatched
    outcome,         \* how the last ask ended: [kind, value]
    n_invocations,   \* number of llm.invoke calls of the current turn
    invoked_with,    \* the message sequence handed to the latest llm.invoke
    last_call,       \* the latest call_tool: request, file before, result, session events
    driver_calls,    \* dispatcher or scope on its own: number of calls made
    displayed,       \* what the front end showed last (print, st.error, st.markdown)
    session_state,   \* app.py: st.session_state of the browser session (is_guest, user, ...)
    conversations_db,\* the sessions table of the conversations database
    uploaded_file,   \* app.py: per browser session, the file its uploader holds
    other_run,       \* app.py: position of the script run of the other browser session
    db_calls,        \* persistence on its own: the calls made, with their results
    users_db,        \* the users table of the users database
    last_scope,      \* the latest with_sql_cursor scope on its own: arguments and result
    clicked          \* app.py: the widget event that started the script run, with its input

\* the state of the web front end and of its conversations database
webVars == << session_state, conversations_db, uploaded_file, other_run, db_calls >>

\* the state of the accounts, of the scope on its own and of the login gate
aloneVars == << users_db, last_scope, clicked >>

vars == << DATABASE_PATH, file, history, pc, query, max_iterations, n_iterations,
           messages, response, call_index, outcome, n_invocations, invoked_with,
           last_call, driver_calls, displayed, session_state, conversations_db,
           uploaded_file, other_run, db_calls, users_db, last_scope, clicked >>

-----------------------------------------------------------------------------
(* Bounds of the model *)

\* largest ceiling passed to ask
MaxIterations == 2
\* largest number of tool-call requests in one assistant message
MaxBatch == 2
\* largest number of rows of a table in an initial file
MaxRows == 2
\* number of dispatcher calls in a run of the dispatcher on its own
MaxToolCalls == 2

-----------------------------------------------------------------------------
(* Python values and their rendering *)

PyStr(s) == [t |-> "str", s |-> s, n |-> 0]
PyInt(n) == [t |-> "int", s |-> "", n |-> n]
PyNone == [t |-> "none", s |-> "", n |-> 0]

Digit == << "0", "1", "2", "3", "4", "5", "6", "7", "8", "9" >>

RECURSIVE NatStr(_)
NatStr(n) == IF n < 10 THEN Digit[n + 1] ELSE NatStr(n \div 10) \o Digit[(n % 10) + 1]

\* s.lower(), on the letters that occur in the texts of the model
UpperCase == << "A", "B", "C", "D", "E", "F", "G", "H", "I", "J", "K", "L", "M",
                "N", "O", "P", "Q", "R", "S", "T", "U", "V", "W", "X", "Y", "Z" >>
LowerCase == << "a", "b", "c", "d", "e", "f", "g", "h", "i", "j", "k", "l", "m",
                "n", "o", "p", "q", "r", "s", "t", "u", "v", "w", "x", "y", "z" >>

LowerChar(c) ==
    IF \E i \in 1..26 : UpperCase[i] = c
    THEN LowerCase[CHOOSE i \in 1..26 : UpperCase[i] = c]
    ELSE c

RECURSIVE lower(_)
lower(s) ==
    IF Len(s) = 0 THEN ""
    ELSE IF Len(s) = 1 THEN LowerChar(s)
    ELSE lower(SubSeq(s, 1, Len(s) \div 2)) \o lower(SubSeq(s, Len(s) \div 2 + 1, Len(s)))

\* keyword in s
Contains(s, keyword) ==
    \E i \in 1..(Len(s) - Len(keyword) + 1) : SubSeq(s, i, i + Len(keyword) - 1) = keyword

\* repr(v)
Repr(v) ==
    IF v.t = "int" THEN (IF v.n < 0 THEN "-" \o NatStr(0 - v.n) ELSE NatStr(v.n))
    ELSE IF v.t = "str" THEN "'" \o v.s \o "'"
    ELSE "None"

RECURSIVE JoinReprs(_)
JoinReprs(vs) ==
    IF Len(vs) = 0 THEN ""
    ELSE IF Len(vs) = 1 THEN Repr(vs[1])
    ELSE Repr(vs[1]) \o ", " \o JoinReprs(Tail(vs))

\* str(row) for a tuple
TupleStr(row) == "(" \o JoinReprs(row) \o (IF Len(row) = 1 THEN "," ELSE "") \o ")"

\* str(xs) for a list
ListStr(xs) == "[" \o JoinReprs(xs) \o "]"

\* [str(row) for row in rows], the lines that "\n".join puts together
RowLines(rows) == [i \in 1..Len(rows) |-> TupleStr(rows[i])]

-----------------------------------------------------------------------------
(* The SQLite file and the engine *)

Absent == -1

\* tables in creation order (the order of sqlite_master)
TableOrder == << "sqlite_sequence", "t", "u", "sqlitex" >>
TableNames == { TableOrder[i] : i \in 1..Len(TableOrder) }

NoFile == [kind |-> "absent", tables |-> [n \in TableNames |-> Absent]]

\* name LIKE 'sqlite_%': "sqlite" in any letter case, any one character, then anything
LikeSqlite(name) == Len(name) >= 7 /\ lower(SubSeq(name, 1, 6)) = "sqlite"

HasTable(f, name) == name \in TableNames /\ f.tables[name] # Absent

RECURSIVE Range1(_, _)
Range1(i, n) == IF i > n THEN <<>> ELSE << <<PyInt(i)>> >> \o Range1(i + 1, n)

Min(a, b) == IF a < b THEN a ELSE b

\* statements
ListStmt == [op |-> "list", table |-> "", limit |-> 0]
SelectStmt(name, limit) == [op |-> "select", table |-> name, limit |-> limit]
PragmaStmt(name) == [op |-> "pragma", table |-> name, limit |-> 0]
InsertStmt(name) == [op |-> "insert", table |-> name, limit |-> 0]
InsertOrFailStmt(name) == [op |-> "insert_or_fail", table |-> name, limit |-> 0]
CreateStmt(name) == [op |-> "create", table |-> name, limit |-> 0]
SyntaxErrorStmt == [op |-> "syntax", table |-> "", limit |-> 0]

\* the statement texts execute_sql is given, and what the engine parses them to
SqlTexts == { "SELECT * FROM t", "INSERT INTO t VALUES (NULL)",
              "INSERT OR FAIL INTO t SELECT ...", "CREATE TABLE u (x INTEGER)", "SELEC" }

ParseSql(text) ==
    CASE text = "SELECT * FROM t" -> SelectStmt("t", -1)
      [] text = "INSERT INTO t VALUES (NULL)" -> InsertStmt("t")
      [] text = "INSERT OR FAIL INTO t SELECT ..." -> InsertOrFailStmt("t")
      [] text = "CREATE TABLE u (x INTEGER)" -> CreateStmt("u")
      [] OTHER -> SyntaxErrorStmt

EngineOk(rows, durable, pending) ==
    [ok |-> TRUE, rows |-> rows, err |-> "", durable |-> durable, pending |-> pending]
EngineError(err, durable, pending) ==
    [ok |-> FALSE, rows |-> <<>>, err |-> err, durable |-> durable, pending |-> pending]

WithRows(f, name, k) == [f EXCEPT !.tables[name] = k]

RECURSIVE UserTables(_, _)
UserTables(f, i) ==
    IF i > Len(TableOrder) THEN <<>>
    ELSE (IF HasTable(f, TableOrder[i]) /\ ~LikeSqlite(TableOrder[i])
          THEN << <<PyStr(TableOrder[i])>> >> ELSE <<>>) \o UserTables(f, i + 1)

(* cursor.execute(stmt); cursor.fetchall() on a connection in Python's default
   transaction mode: a transaction is opened implicitly before INSERT, and only
   then; every other statement runs in autocommit.  durable is the file once the
   connection is closed without a commit, pending the file as the open
   transaction sees it (what a commit would make durable). *)
Execute(stmt, f) ==
    IF stmt.op = "syntax" THEN EngineError("near \"SELEC\": syntax error", f, f)
    ELSE IF f.kind = "garbage" THEN EngineError("file is not a database", f, f)
    ELSE CASE stmt.op = "list" -> EngineOk(UserTables(f, 1), f, f)
      [] stmt.op = "select" ->
            IF ~HasTable(f, stmt.table)
            THEN EngineError("no such table: " \o stmt.table, f, f)
            ELSE EngineOk(Range1(1, IF stmt.limit < 0 THEN f.tables[stmt.table]
                                    ELSE Min(stmt.limit, f.tables[stmt.table])), f, f)
      [] stmt.op = "pragma" ->
            IF ~HasTable(f, stmt.table) THEN EngineOk(<<>>, f, f)
            ELSE EngineOk(<< <<PyInt(0), PyStr("x"), PyStr("INTEGER"), PyInt(0), PyNone, PyInt(0)>> >>, f, f)
      [] stmt.op = "insert" ->
            IF ~HasTable(f, stmt.table)
            THEN EngineError("no such table: " \o stmt.table, f, f)
            ELSE EngineOk(<<>>, f, WithRows(f, stmt.table, f.tables[stmt.table] + 1))
      [] stmt.op = "insert_or_fail" ->
            \* ON CONFLICT FAIL keeps the rows written before the failing one
            IF ~HasTable(f, stmt.table)
            THEN EngineError("no such table: " \o stmt.table, f, f)
            ELSE EngineError("UNIQUE constraint failed: t.x", f,
                             WithRows(f, stmt.table, f.tables[stmt.table] + 1))
      [] OTHER ->  \* "create"
            IF HasTable(f, stmt.table)
            THEN EngineError("table " \o stmt.table \o " already exists", f, f)
            ELSE EngineOk(<<>>, WithRows(f, stmt.table, 0), WithRows(f, stmt.table, 0))

-----------------------------------------------------------------------------
(* Querymind/tools.py: the scoped database session *)

Raised(exc, err, f, events) ==
    [raised |-> exc, err |-> err, rows |-> <<>>, file |-> f, events |-> events]
Yielded(rows, f, events) ==
    [raised |-> "", err |-> "", rows |-> rows, file |-> f, events |-> events]

\* with_sql_cursor with conn.commit() moved into the finally block
with_sql_cursor_CommitInFinally(readonly, stmt, path, f) ==
    IF path = "None" \/ f.kind = "absent"
    THEN Raised("FileNotFoundError", "Database file not found: " \o path, f, <<>>)
    ELSE LET r == Execute(stmt, f) IN
         IF r.ok
         THEN Yielded(r.rows, r.pending,
                      << "connect", "cursor", "execute", "cur.close", "commit", "conn.close" >>)
         ELSE Raised("sqlite3.Error", r.err, r.pending,
                     << "connect", "cursor", "execute", "cur.close", "commit", "conn.close" >>)

\* with_sql_cursor closing the cursor and the connection after the yield, not in a finally block
with_sql_cursor_NoFinally(readonly, stmt, path, f) ==
    IF path = "None" \/ f.kind = "absent"
    THEN Raised("FileNotFoundError", "Database file not found: " \o path, f, <<>>)
    ELSE LET r == Execute(stmt, f) IN
         IF r.ok
         THEN Yielded(r.rows, IF readonly THEN r.durable ELSE r.pending,
                      << "connect", "cursor", "execute" >>
                        \o (IF readonly THEN <<>> ELSE << "commit" >>)
                        \o << "cur.close", "conn.close" >>)
         ELSE Raised("sqlite3.Error", r.err, r.durable,
                     << "connect", "cursor", "execute" >>
                       \o (IF readonly THEN <<>> ELSE << "rollback" >>))

\* with_sql_cursor whose except clause re-raises without conn.rollback()
with_sql_cursor_NoRollback(readonly, stmt, path, f) ==
    IF path = "None" \/ f.kind = "absent"
    THEN Raised("FileNotFoundError", "Database file not found: " \o path, f, <<>>)
    ELSE LET r == Execute(stmt, f) IN
         IF r.ok
         THEN IF readonly
              THEN Yielded(r.rows, r.durable,
                           << "connect", "cursor", "execute", "cur.close", "conn.close" >>)
              ELSE Yielded(r.rows, r.pending,
                           << "connect", "cursor", "execute", "commit", "cur.close", "conn.close" >>)
         ELSE Raised("sqlite3.Error", r.err, r.durable,
                     << "connect", "cursor", "execute", "cur.close", "conn.close" >>)

(* with with_sql_cursor(readonly) as cursor: cursor.execute(stmt); rows =
   cursor.fetchall().  The result is what leaves the with statement (the rows, or
   the exception raised), the file afterwards, and the calls made on the
   connection and the cursor, in order. *)
with_sql_cursor(readonly, stmt, path, f) ==
    IF path = "None" \/ f.kind = "absent"
    THEN Raised("FileNotFoundError", "Database file not found: " \o path, f, <<>>)
    ELSE LET r == Execute(stmt, f) IN
         IF r.ok
         THEN IF readonly
              THEN Yielded(r.rows, r.durable,
                           << "connect", "cursor", "execute", "cur.close", "conn.close" >>)
              ELSE Yielded(r.rows, r.pending,
                           << "connect", "cursor", "execute", "commit", "cur.close", "conn.close" >>)
         ELSE IF readonly
              THEN Raised("sqlite3.Error", r.err, r.durable,
                          << "connect", "cursor", "execute", "cur.close", "conn.close" >>)
              ELSE Raised("sqlite3.Error", r.err, r.durable,
                          << "connect", "cursor", "execute", "rollback", "cur.close", "conn.close" >>)

-----------------------------------------------------------------------------
(* Querymind/tools.py: the four tools *)

NoDatabaseText ==
    << "Error: No database has been uploaded yet. Please upload a SQLite database file first." >>

ToolResult(content, s) == [content |-> content, file |-> s.file, events |-> s.events]

list_tables(args, path, f) ==
    LET s == with_sql_cursor(TRUE, ListStmt, path, f) IN
    IF s.raised = "FileNotFoundError" THEN ToolResult(NoDatabaseText, s)
    ELSE IF s.raised # "" THEN ToolResult(<< "Error listing tables: " \o s.err >>, s)
    ELSE ToolResult(<< ListStr([i \in 1..Len(s.rows) |-> s.rows[i][1]]) >>, s)

sample_table(args, path, f) ==
    LET s == with_sql_cursor(TRUE, SelectStmt(args.table_name.s, args.row_sample_size.n),
                             path, f) IN
    IF s.raised = "FileNotFoundError" THEN ToolResult(NoDatabaseText, s)
    ELSE IF s.raised # "" THEN ToolResult(<< "Error sampling table: " \o s.err >>, s)
    ELSE ToolResult(RowLines(s.rows), s)

describe_table(args, path, f) ==
    LET s == with_sql_cursor(TRUE, PragmaStmt(args.table_name.s), path, f) IN
    IF s.raised = "FileNotFoundError" THEN ToolResult(NoDatabaseText, s)
    ELSE IF s.raised # "" THEN ToolResult(<< "Error describing table: " \o s.err >>, s)
    ELSE ToolResult(RowLines(s.rows), s)

\* execute_sql without its except FileNotFoundError clause
execute_sql_OneExceptClause(args, path, f) ==
    LET s == with_sql_cursor(TRUE, ParseSql(args.sql_query.s), path, f) IN
    IF s.raised # "" THEN ToolResult(<< "Error running query: " \o s.err >>, s)
    ELSE ToolResult(RowLines(s.rows), s)

\* execute_sql answering an engine error without the engine's message
execute_sql_NoEngineMessage(args, path, f) ==
    LET s == with_sql_cursor(TRUE, ParseSql(args.sql_query.s), path, f) IN
    IF s.raised = "FileNotFoundError" THEN ToolResult(NoDatabaseText, s)
    ELSE IF s.raised # "" THEN ToolResult(<< "Error running query" >>, s)
    ELSE ToolResult(RowLines(s.rows), s)

execute_sql(args, path, f) ==
    LET s == with_sql_cursor(TRUE, ParseSql(args.sql_query.s), path, f) IN
    IF s.raised = "FileNotFoundError" THEN ToolResult(NoDatabaseText, s)
    ELSE IF s.raised # "" THEN ToolResult(<< "Error running query: " \o s.err >>, s)
    ELSE ToolResult(RowLines(s.rows), s)

-----------------------------------------------------------------------------
(* Querymind/tools.py: the registry and the dispatcher *)

get_available_tools == << "list_tables", "sample_table", "describe_table", "execute_sql" >>

\* the parameters the @tool decorator derives from a tool's signature, all required
Params(name) ==
    CASE name = "list_tables" -> { "reasoning" }
      [] name = "sample_table" -> { "reasoning", "table_name", "row_sample_size" }
      [] name = "describe_table" -> { "reasoning", "table_name" }
      [] name = "execute_sql" -> { "reasoning", "sql_query" }

ParamType(p) == IF p = "row_sample_size" THEN "int" ELSE "str"

\* the validation tool.invoke makes of the argument mapping before the tool runs
ValidArgs(name, args) ==
    \A p \in Params(name) : p \in DOMAIN args /\ args[p].t = ParamType(p)

\* tool.invoke(args)
invoke_tool(name, args, path, f) ==
    CASE name = "list_tables" -> list_tables(args, path, f)
      [] name = "sample_table" -> sample_table(args, path, f)
      [] name = "describe_table" -> describe_table(args, path, f)
      [] name = "execute_sql" -> execute_sql(args, path, f)

ToolMessage(content, id) == [type |-> "tool", content |-> content, tool_call_id |-> id]

ToolCall(name, args, id) == [name |-> name, args |-> args, id |-> id]

CallId(i) == "call_" \o NatStr(i)

\* call_tool tagging every result with the identifier of the first call
call_tool_FirstId(tool_call, path, f) ==
    LET tools_by_name == { get_available_tools[i] : i \in 1..Len(get_available_tools) } IN
    IF tool_call.name \notin tools_by_name
    THEN [raised |-> "KeyError", message |-> <<>>, file |-> f, events |-> <<>>]
    ELSE IF ~ValidArgs(tool_call.name, tool_call.args)
    THEN [raised |-> "ValidationError", message |-> <<>>, file |-> f, events |-> <<>>]
    ELSE LET r == invoke_tool(tool_call.name, tool_call.args, path, f) IN
         [raised |-> "", message |-> << ToolMessage(r.content, CallId(1)) >>,
          file |-> r.file, events |-> r.events]

(* call_tool(tool_call): the exception it raises ("" when it returns), the
   ToolMessage it returns (as a sequence of at most one message), the file
   afterwards and the session's calls. *)
call_tool(tool_call, path, f) ==
    LET tools_by_name == { get_available_tools[i] : i \in 1..Len(get_available_tools) } IN
    IF tool_call.name \notin tools_by_name
    THEN [raised |-> "KeyError", message |-> <<>>, file |-> f, events |-> <<>>]
    ELSE IF ~ValidArgs(tool_call.name, tool_call.args)
    THEN [raised |-> "ValidationError", message |-> <<>>, file |-> f, events |-> <<>>]
    ELSE LET r == invoke_tool(tool_call.name, tool_call.args, path, f) IN
         [raised |-> "", message |-> << ToolMessage(r.content, tool_call.id) >>,
          file |-> r.file, events |-> r.events]

-----------------------------------------------------------------------------
(* The inputs: files, tool-call requests, model responses *)

SqliteFile(seq, t, u) ==
    [kind |-> "sqlite",
     tables |-> [n \in TableNames |->
                   IF n = "t" THEN t
                   ELSE IF n = "u" THEN u
                   ELSE IF n = "sqlite_sequence" THEN seq
                   ELSE Absent]]

GarbageFile == [NoFile EXCEPT !.kind = "garbage"]

Files ==
    { NoFile, GarbageFile }
      \cup { SqliteFile(seq, t, Absent) : seq \in {Absent, 0}, t \in {Absent} \cup 0..MaxRows }
      \cup { WithRows(SqliteFile(Absent, t, Absent), "sqlitex", 1) : t \in {Absent, 1} }

\* the handle and the file it names: unset, or set to a path whose file may be missing
Targets == { <<"None", NoFile>> } \cup { <<"data.db", f>> : f \in Files }

Reasoning == [p \in {"reasoning"} |-> PyStr("why")]

WithArg(args, p, v) == [q \in DOMAIN args \cup {p} |-> IF q = p THEN v ELSE args[q]]

WellFormedRequests ==
    { <<"list_tables", Reasoning>> }
      \cup { <<"sample_table",
               WithArg(WithArg(Reasoning, "table_name", PyStr(t)), "row_sample_size", PyInt(k))>> :
             t \in {"t", "nosuch"}, k \in {-1, 0, 1, MaxRows + 1} }
      \cup { <<"describe_table", WithArg(Reasoning, "table_name", PyStr(t))>> :
             t \in {"t", "nosuch"} }
      \cup { <<"execute_sql", WithArg(Reasoning, "sql_query", PyStr(q))>> : q \in SqlTexts }

EmptyArgs == [p \in {} |-> PyNone]

IllFormedRequests ==
    { <<"list_tables", EmptyArgs>>,
      <<"sample_table", WithArg(Reasoning, "table_name", PyStr("t"))>>,
      <<"sample_table",
        WithArg(WithArg(Reasoning, "table_name", PyStr("t")), "row_sample_size", PyNone)>>,
      <<"describe_table", Reasoning>>,
      <<"execute_sql", WithArg(EmptyArgs, "sql_query", PyStr("SELECT * FROM t"))>> }

UnknownRequests == { <<"plot_chart", Reasoning>> }

Requests == WellFormedRequests \cup IllFormedRequests \cup UnknownRequests

\* the requests the model makes in the conversation loop
LoopRequests ==
    { <<"list_tables", Reasoning>>,
      <<"execute_sql", WithArg(Reasoning, "sql_query", PyStr("SELEC"))>>,
      <<"sample_table", WithArg(Reasoning, "table_name", PyStr("t"))>>,
      <<"plot_chart", Reasoning>> }

RECURSIVE Batches(_)
Batches(k) ==
    IF k = 0 THEN { <<>> }
    ELSE { Append(b, ToolCall(r[1], r[2], CallId(k))) : b \in Batches(k - 1), r \in LoopRequests }

SystemMessage(content) == [type |-> "system", content |-> content]
HumanMessage(content) == [type |-> "human", content |-> content]
AIMessage(content, tool_calls) ==
    [type |-> "ai", content |-> content, tool_calls |-> tool_calls]

\* what llm.invoke may return
Responses ==
    { AIMessage(<< "answer" >>, <<>>) }
      \cup { AIMessage(<<>>, b) : b \in UNION { Batches(k) : k \in 1..MaxBatch } }

NoResponse == AIMessage(<<>>, <<>>)

NoCall ==
    [request |-> ToolCall("", EmptyArgs, ""), path |-> "None", before |-> NoFile,
     raised |-> "", message |-> <<>>, after |-> NoFile, events |-> <<>>]

CallRecord(tool_call, path, f, r) ==
    [request |-> tool_call, path |-> path, before |-> f,
     raised |-> r.raised, message |-> r.message, after |-> r.file, events |-> r.events]

\* a script run that no widget event started (the first run, a rerun)
NoClick == [widget |-> "", input |-> ""]

\* no scope was opened yet
NoScope ==
    [readonly |-> TRUE, stmt |-> ListStmt, path |-> "None", before |-> NoFile,
     raised |-> "", err |-> "", rows |-> <<>>, after |-> NoFile, events |-> <<>>,
     opened |-> FALSE]

ScopeRecord(readonly, stmt, path, f, s) ==
    [readonly |-> readonly, stmt |-> stmt, path |-> path, before |-> f,
     raised |-> s.raised, err |-> s.err, rows |-> s.rows, after |-> s.file,
     events |-> s.events, opened |-> TRUE]

-----------------------------------------------------------------------------
(* Querymind/agent.py: the conversation loop *)

SYSTEM_PROMPT == << "You are QueryMind" >>

\* create_history without the system prompt
create_history_Empty == <<>>

create_history == << SystemMessage(SYSTEM_PROMPT) >>

NoOutcome == [kind |-> "none", value |-> <<>>]
Returned(content) == [kind |-> "return", value |-> content]
\* an exception leaves ask: its class and str(e)
Failed(exc, text) == [kind |-> "raise", value |-> << exc, text >>]

\* str(e) of the exception call_tool raised: the missing key, or the head line
\* of the validation report
ExceptionText(raised, tool_call) ==
    IF raised = "KeyError" THEN "'" \o tool_call.name \o "'"
    ELSE "1 validation error for " \o tool_call.name

\* the message worded as a limit that was exceeded
IterationLimitText_LimitExceeded ==
    "Iteration limit exceeded. Please try again with a different query."

IterationLimitText ==
    "Maximum number of iterations reached. Please try again with a different query."

IterationLimitError == Failed("RuntimeError", IterationLimitText)

\* the exceptions llm.invoke raises: [class, str(e)]
ProviderErrors ==
    { << "RateLimitError",
         "Error code: 429 - {'error': {'message': 'Rate limit reached for model', 'code': 'rate_limit_exceeded'}}" >>,
      << "APIConnectionError", "Connection error." >> }

\* the input lines of the CLI
Lines == { "exit", "QUIT", "Exit", "q" }

\* the test without lower(): query in ('exit', 'quit')
IsExitLine_NoLower(line) == line \in { "exit", "quit" }

\* query.lower() in ('exit', 'quit')
IsExitLine(line) == lower(line) \in { "exit", "quit" }

\* except Exception: the classes derived from Exception
CaughtByMain(exc) ==
    exc \in { "RuntimeError", "KeyError", "ValidationError", "RateLimitError",
              "APIConnectionError" }

\* ask(q, h, llm, ceiling) is entered: it copies h and appends the query
AskEntry(q, h, ceiling) ==
    /\ pc' = "loop"
    /\ query' = q
    /\ max_iterations' = ceiling
    /\ n_iterations' = 0
    /\ messages' = Append(h, HumanMessage(<< q >>))
    /\ response' = NoResponse
    /\ call_index' = 0
    /\ outcome' = NoOutcome
    /\ n_invocations' = 0
    /\ invoked_with' = <<>>
    /\ last_call' = NoCall

\* main.py reads a line that is not exit or quit and calls ask(query, history, llm)
StartAsk(q, ceiling) ==
    /\ pc = "idle"
    /\ ~IsExitLine(q)
    /\ AskEntry(q, history, ceiling)
    /\ displayed' = << "Processing..." >>
    /\ UNCHANGED << DATABASE_PATH, file, history, driver_calls >>
    /\ UNCHANGED webVars
    /\ UNCHANGED aloneVars

\* main.py reads exit or quit: Goodbye, and the loop is left
Quit(line) ==
    /\ pc = "idle"
    /\ IsExitLine(line)
    /\ pc' = "exited"
    /\ query' = line
    /\ displayed' = << "Goodbye!" >>
    /\ UNCHANGED << DATABASE_PATH, file, history, max_iterations, n_iterations, messages,
                    response, call_index, outcome, n_invocations, invoked_with, last_call,
                    driver_calls >>
    /\ UNCHANGED webVars
    /\ UNCHANGED aloneVars

\* main.py after ask: the response is printed, or the exception is caught and its
\* text printed, and the next line is read; an exception that is not caught ends
\* the program.  The record of the turn's invocations and tool calls ends with it.
PrintResult ==
    /\ pc = "ended"
    /\ IF outcome.kind = "return"
       THEN pc' = "idle" /\ displayed' = << "Response:" >> \o outcome.value
       ELSE IF CaughtByMain(outcome.value[1])
       THEN pc' = "idle" /\ displayed' = << "Error: " \o outcome.value[2] >>
       ELSE pc' = "crashed" /\ displayed' = << "Traceback" >>
    /\ n_invocations' = 0
    /\ invoked_with' = <<>>
    /\ last_call' = NoCall
    /\ UNCHANGED << DATABASE_PATH, file, history, query, max_iterations, n_iterations,
                    messages, response, call_index, outcome, driver_calls >>
    /\ UNCHANGED webVars
    /\ UNCHANGED aloneVars

\* ask is left, by return or by an exception: its local variables are gone
EndAsk(result) ==
    /\ pc' = "ended"
    /\ outcome' = result
    /\ n_iterations' = 0
    /\ messages' = <<>>
    /\ response' = NoResponse
    /\ call_index' = 0

\* the loop body without 'if not response.tool_calls: return response.content':
\* the for loop runs over no request and the iteration is counted
InvokeModel_NoReturn(resp) ==
    /\ pc = "loop"
    /\ n_iterations < max_iterations
    /\ n_invocations' = n_invocations + 1
    /\ invoked_with' = messages
    /\ messages' = Append(messages, resp)
    /\ response' = resp
    /\ call_index' = 0
    /\ IF Len(resp.tool_calls) = 0
       THEN pc' = "loop" /\ n_iterations' = n_iterations + 1
       ELSE pc' = "dispatch" /\ UNCHANGED n_iterations
    /\ UNCHANGED << DATABASE_PATH, file, history, query, max_iterations,
                    last_call, driver_calls, displayed, outcome >>
    /\ UNCHANGED webVars
    /\ UNCHANGED aloneVars

\* llm.invoke handed only the messages of the current turn, not the history
InvokeModel_TurnOnly(resp) ==
    /\ pc = "loop"
    /\ n_iterations < max_iterations
    /\ n_invocations' = n_invocations + 1
    /\ invoked_with' = SubSeq(messages, Len(history) + 1, Len(messages))
    /\ IF Len(resp.tool_calls) = 0
       THEN EndAsk(Returned(resp.content))
       ELSE /\ pc' = "dispatch"
            /\ messages' = Append(messages, resp)
            /\ response' = resp
            /\ call_index' = 0
            /\ UNCHANGED << outcome, n_iterations >>
    /\ UNCHANGED << DATABASE_PATH, file, history, query, max_iterations,
                    last_call, driver_calls, displayed >>
    /\ UNCHANGED webVars
    /\ UNCHANGED aloneVars

\* llm.invoke(messages) returns resp; it is appended; without tool calls ask returns
InvokeModel(resp) ==
    /\ pc = "loop"
    /\ n_iterations < max_iterations
    /\ n_invocations' = n_invocations + 1
    /\ invoked_with' = messages
    /\ IF Len(resp.tool_calls) = 0
       THEN EndAsk(Returned(resp.content))
       ELSE /\ pc' = "dispatch"
            /\ messages' = Append(messages, resp)
            /\ response' = resp
            /\ call_index' = 0
            /\ UNCHANGED << outcome, n_iterations >>
    /\ UNCHANGED << DATABASE_PATH, file, history, query, max_iterations,
                    last_call, driver_calls, displayed >>
    /\ UNCHANGED webVars
    /\ UNCHANGED aloneVars

\* llm.invoke(messages) raises (rate limit, quota, network): the exception leaves ask
ProviderFails(e) ==
    /\ pc = "loop"
    /\ n_iterations < max_iterations
    /\ n_invocations' = n_invocations + 1
    /\ invoked_with' = messages
    /\ EndAsk(Failed(e[1], e[2]))
    /\ UNCHANGED << DATABASE_PATH, file, history, query, max_iterations,
                    last_call, driver_calls, displayed >>
    /\ UNCHANGED webVars
    /\ UNCHANGED aloneVars

\* n_iterations += 1, left out
SameIteration(n) == n

\* n_iterations += 1
NextIteration(n) == n + 1

\* the dispatch step with a tool session that clears the handle when it finds
\* the file missing
DispatchToolCall_ClearsHandle ==
    /\ pc = "dispatch"
    /\ \E tool_call \in { response.tool_calls[call_index + 1] } :
       \E r \in { call_tool(tool_call, DATABASE_PATH, file) } :
          /\ last_call' = CallRecord(tool_call, DATABASE_PATH, file, r)
          /\ file' = r.file
          /\ DATABASE_PATH' = IF file.kind = "absent" THEN "None" ELSE DATABASE_PATH
          /\ IF r.raised # ""
             THEN EndAsk(Failed(r.raised, ExceptionText(r.raised, tool_call)))
             ELSE /\ messages' = messages \o r.message
                  /\ call_index' = call_index + 1
                  /\ UNCHANGED << outcome, response >>
                  /\ IF call_index + 1 = Len(response.tool_calls)
                     THEN pc' = "loop" /\ n_iterations' = NextIteration(n_iterations)
                     ELSE pc' = "dispatch" /\ UNCHANGED n_iterations
    /\ UNCHANGED << history, query, max_iterations,
                    n_invocations, invoked_with, driver_calls, displayed >>
    /\ UNCHANGED webVars
    /\ UNCHANGED aloneVars

\* one pass of the for loop: call_tool on the next request (r is its one
\* result), its message appended; after the last request of the batch,
\* n_iterations += 1
DispatchToolCall ==
    /\ pc = "dispatch"
    /\ \E tool_call \in { response.tool_calls[call_index + 1] } :
       \E r \in { call_tool(tool_call, DATABASE_PATH, file) } :
          /\ last_call' = CallRecord(tool_call, DATABASE_PATH, file, r)
          /\ file' = r.file
          /\ IF r.raised # ""
             THEN EndAsk(Failed(r.raised, ExceptionText(r.raised, tool_call)))
             ELSE /\ messages' = messages \o r.message
                  /\ call_index' = call_index + 1
                  /\ UNCHANGED << outcome, response >>
                  /\ IF call_index + 1 = Len(response.tool_calls)
                     THEN pc' = "loop" /\ n_iterations' = NextIteration(n_iterations)
                     ELSE pc' = "dispatch" /\ UNCHANGED n_iterations
    /\ UNCHANGED << DATABASE_PATH, history, query, max_iterations,
                    n_invocations, invoked_with, driver_calls, displayed >>
    /\ UNCHANGED webVars
    /\ UNCHANGED aloneVars

\* the while condition fails: raise RuntimeError("Maximum number of iterations reached...")
IterationLimit ==
    /\ pc = "loop"
    /\ ~(n_iterations < max_iterations)
    /\ EndAsk(IterationLimitError)
    /\ UNCHANGED << DATABASE_PATH, file, history, query, max_iterations,
                    n_invocations, invoked_with, last_call, driver_calls, displayed >>
    /\ UNCHANGED webVars
    /\ UNCHANGED aloneVars

\* session_id is None
NoSessionId == 0

\* st.session_state of a guest
GuestState == [is_guest |-> TRUE, user_id |-> "None", current_session_id |-> NoSessionId]

\* the sessions table without rows; AUTO_INCREMENT hands out 1 first
EmptyDb == [rows |-> {}, auto_increment |-> 1]

\* the browser sessions served by the one Streamlit process
Browsers == { 1, 2 }

\* the CLI, the dispatcher and the scope have no web front end, no accounts and
\* no conversations database
NoFrontEnd ==
    /\ session_state = GuestState
    /\ conversations_db = EmptyDb
    /\ uploaded_file = [b \in Browsers |-> "None"]
    /\ other_run = "idle"
    /\ db_calls = <<>>
    /\ users_db = {}
    /\ last_scope = NoScope
    /\ clicked = NoClick

\* main.py sets the handle to an existing path; the file may be removed later
LoopTargets == { <<"data.db", SqliteFile(Absent, 1, Absent)>>, <<"data.db", NoFile>> }

Init ==
    /\ \E tg \in LoopTargets : DATABASE_PATH = tg[1] /\ file = tg[2]
    /\ history = create_history
    /\ pc = "idle"
    /\ query = ""
    /\ max_iterations = 0
    /\ n_iterations = 0
    /\ messages = <<>>
    /\ response = NoResponse
    /\ call_index = 0
    /\ outcome = NoOutcome
    /\ n_invocations = 0
    /\ invoked_with = <<>>
    /\ last_call = NoCall
    /\ driver_calls = 0
    /\ displayed = <<>>
    /\ NoFrontEnd

Next ==
    \/ \E line \in Lines : Quit(line)
    \/ \E line \in Lines, ceiling \in 1..MaxIterations : StartAsk(line, ceiling)
    \/ \E resp \in Responses : InvokeModel(resp)
    \/ \E e \in ProviderErrors : ProviderFails(e)
    \/ DispatchToolCall
    \/ IterationLimit
    \/ PrintResult

Spec == Init /\ [][Next]_vars

-----------------------------------------------------------------------------
(* The dispatcher on its own: call_tool applied to any request on any target *)

Dispatch(req) ==
    /\ pc = "tools"
    /\ driver_calls < MaxToolCalls
    /\ \E tool_call \in { ToolCall(req[1], req[2], CallId(driver_calls + 1)) } :
       \E r \in { call_tool(tool_call, DATABASE_PATH, file) } :
          /\ last_call' = CallRecord(tool_call, DATABASE_PATH, file, r)
          /\ file' = r.file
    /\ driver_calls' = driver_calls + 1
    /\ UNCHANGED << DATABASE_PATH, history, pc, query, max_iterations, n_iterations,
                    messages, response, call_index, outcome, n_invocations, invoked_with,
                    displayed >>
    /\ UNCHANGED webVars
    /\ UNCHANGED aloneVars

ToolInit ==
    /\ \E tg \in Targets : DATABASE_PATH = tg[1] /\ file = tg[2]
    /\ history = create_history
    /\ pc = "tools"
    /\ query = ""
    /\ max_iterations = 0
    /\ n_iterations = 0
    /\ messages = <<>>
    /\ response = NoResponse
    /\ call_index = 0
    /\ outcome = NoOutcome
    /\ n_invocations = 0
    /\ invoked_with = <<>>
    /\ last_call = NoCall
    /\ driver_calls = 0
    /\ displayed = <<>>
    /\ NoFrontEnd

ToolNext == \E req \in Requests : Dispatch(req)

ToolSpec == ToolInit /\ [][ToolNext]_vars

\* the loop with the program always taking its next step: every model invocation
\* and every tool call returns or raises
FairSpec == Init /\ [][Next]_vars /\ WF_vars(Next)

-----------------------------------------------------------------------------
(* The scoped session on its own: a with_sql_cursor block, read-only or not,
   around one statement, on any target *)

\* the statements run inside the scope
ScopeStatements ==
    { ListStmt, SelectStmt("t", 1), SelectStmt("nosuch", 1), PragmaStmt("t"),
      InsertStmt("t"), InsertOrFailStmt("t"), CreateStmt("u"), SyntaxErrorStmt }

Scope(readonly, stmt) ==
    /\ pc = "scope"
    /\ driver_calls < MaxToolCalls
    /\ \E s \in { with_sql_cursor(readonly, stmt, DATABASE_PATH, file) } :
          /\ last_scope' = ScopeRecord(readonly, stmt, DATABASE_PATH, file, s)
          /\ file' = s.file
    /\ driver_calls' = driver_calls + 1
    /\ UNCHANGED << DATABASE_PATH, history, pc, query, max_iterations, n_iterations,
                    messages, response, call_index, outcome, n_invocations, invoked_with,
                    last_call, displayed, users_db, clicked >>
    /\ UNCHANGED webVars

ScopeInit ==
    /\ \E tg \in Targets : DATABASE_PATH = tg[1] /\ file = tg[2]
    /\ history = create_history
    /\ pc = "scope"
    /\ query = ""
    /\ max_iterations = 0
    /\ n_iterations = 0
    /\ messages = <<>>
    /\ response = NoResponse
    /\ call_index = 0
    /\ outcome = NoOutcome
    /\ n_invocations = 0
    /\ invoked_with = <<>>
    /\ last_call = NoCall
    /\ driver_calls = 0
    /\ displayed = <<>>
    /\ NoFrontEnd

ScopeNext == \E readonly \in BOOLEAN, stmt \in ScopeStatements : Scope(readonly, stmt)

ScopeSpec == ScopeInit /\ [][ScopeNext]_vars

-----------------------------------------------------------------------------
(* app.py: the persistence of chat sessions in the conversations database *)

\* largest number of persistence calls in a run of the persistence on its own
MaxDbCalls == 2

\* the registered users
Users == { "QM1", "QM2" }

\* st.session_state after login: a registered user, or a guest
UserState(u) == [is_guest |-> FALSE, user_id |-> u, current_session_id |-> NoSessionId]

\* msg.type instead of msg.__class__.__name__
ClassName_MessageType(msg) == msg.type

\* msg.__class__.__name__
ClassName(msg) ==
    CASE msg.type = "system" -> "SystemMessage"
      [] msg.type = "human" -> "HumanMessage"
      [] msg.type = "ai" -> "AIMessage"
      [] msg.type = "tool" -> "ToolMessage"

\* the list json.dumps is given: type and content of every message that is no
\* SystemMessage
RECURSIVE serialized_messages(_)
serialized_messages(ms) ==
    IF Len(ms) = 0 THEN <<>>
    ELSE serialized_messages(SubSeq(ms, 1, Len(ms) - 1))
           \o (IF ClassName(ms[Len(ms)]) = "SystemMessage" THEN <<>>
               ELSE << [type |-> ClassName(ms[Len(ms)]), content |-> ms[Len(ms)].content] >>)

\* the loop of load_session over json.loads(result[0])
RECURSIVE deserialized(_)
deserialized(js) ==
    IF Len(js) = 0 THEN <<>>
    ELSE deserialized(SubSeq(js, 1, Len(js) - 1))
           \o (IF js[Len(js)].type = "HumanMessage"
               THEN << HumanMessage(js[Len(js)].content) >>
               ELSE IF js[Len(js)].type = "AIMessage"
               THEN << AIMessage(js[Len(js)].content, <<>>) >>
               ELSE <<>>)

SessionRow(session_id, user_id, title, js) ==
    [session_id |-> session_id, user_id |-> user_id, title |-> title,
     conversation_json |-> js]

\* the rows WHERE user_id = %s
SessionsOf(db, u) == { row \in db.rows : row.user_id = u }

\* the rows WHERE session_id = %s, whoever the user
Matching_AnyUser(db, session_id, user_id) ==
    { row \in db.rows : row.session_id = session_id }

\* the rows WHERE session_id = %s AND user_id = %s
Matching(db, session_id, user_id) ==
    { row \in db.rows : row.session_id = session_id /\ row.user_id = user_id }

(* save_session(session_id, title, messages): the id it returns (NoSessionId for
   None) and the table afterwards.  engine_ok is whether the database server
   carries out the statement and the commit; when it does not, mysql's Error is
   caught, the transaction is rolled back and None is returned. *)
save_session(session_id, title, msgs, st, db, engine_ok) ==
    IF st.is_guest \/ st.user_id = "None" \/ ~engine_ok
    THEN [returned |-> NoSessionId, db |-> db]
    ELSE IF session_id = NoSessionId
    THEN [returned |-> db.auto_increment,
          db |-> [rows |-> db.rows \cup { SessionRow(db.auto_increment, st.user_id, "Chat@now",
                                                     serialized_messages(msgs)) },
                  auto_increment |-> db.auto_increment + 1]]
    ELSE [returned |-> session_id,
          db |-> [db EXCEPT !.rows =
                    { IF row \in Matching(db, session_id, st.user_id)
                      THEN SessionRow(session_id, st.user_id, title,
                                      serialized_messages(msgs))
                      ELSE row : row \in db.rows }]]

\* load_session building the history without create_history()
load_session_NoSystemMessage(session_id, st, db, engine_ok) ==
    IF st.is_guest \/ st.user_id = "None" \/ ~engine_ok THEN create_history
    ELSE IF Matching(db, session_id, st.user_id) = {} THEN create_history
    ELSE LET row == CHOOSE r \in Matching(db, session_id, st.user_id) : TRUE
         IN deserialized(row.conversation_json)

\* load_session(session_id): the history it returns
load_session(session_id, st, db, engine_ok) ==
    IF st.is_guest \/ st.user_id = "None" \/ ~engine_ok THEN create_history
    ELSE IF Matching(db, session_id, st.user_id) = {} THEN create_history
    ELSE LET row == CHOOSE r \in Matching(db, session_id, st.user_id) : TRUE
         IN create_history \o deserialized(row.conversation_json)

\* list_sessions(): session id and title of the rows WHERE user_id = %s (their
\* order, by created_at, is not modelled)
list_sessions(st, db, engine_ok) ==
    IF st.is_guest \/ st.user_id = "None" \/ ~engine_ok THEN {}
    ELSE { << row.session_id, row.title >> : row \in SessionsOf(db, st.user_id) }

(* delete_session(session_id): the session state and the table afterwards.
   engine_ok is whether the database carries out the DELETE and its commit,
   save_ok whether it then carries out the INSERT of the fresh chat that
   replaces a deleted current one. *)
delete_session(session_id, st, db, engine_ok, save_ok) ==
    IF st.is_guest \/ st.user_id = "None" \/ ~engine_ok
    THEN [st |-> st, db |-> db, reset |-> FALSE]
    ELSE LET deleted == [db EXCEPT !.rows = db.rows \ Matching(db, session_id, st.user_id)]
         IN IF st.current_session_id = session_id
            THEN LET s == save_session(NoSessionId, "", create_history, st, deleted, save_ok)
                 IN [st |-> [st EXCEPT !.current_session_id = s.returned],
                     db |-> s.db, reset |-> TRUE]
            ELSE [st |-> st, db |-> deleted, reset |-> FALSE]

\* the conversation states handed to save_session
ConversationStates ==
    { create_history,
      create_history \o << HumanMessage(<< "q" >>) >>,
      create_history \o << HumanMessage(<< "q" >>), AIMessage(<< "answer" >>, <<>>) >>,
      create_history \o << HumanMessage(<< "q" >>),
                           AIMessage(<<>>, << ToolCall("list_tables", Reasoning, CallId(1)) >>),
                           ToolMessage(<< "['t']" >>, CallId(1)),
                           AIMessage(<< "answer" >>, <<>>),
                           HumanMessage(<< "q" >>) >> }

\* the table after QM1's first chat was saved as session 1
OneSessionDb ==
    save_session(NoSessionId, "", create_history \o << HumanMessage(<< "q0" >>) >>,
                 UserState("QM1"), EmptyDb, TRUE).db

DbCall(op, session_id, ms, engine_ok, returned, loaded, db) ==
    [op |-> op, st |-> session_state, session_id |-> session_id, messages |-> ms,
     engine_ok |-> engine_ok, returned |-> returned, history |-> loaded,
     before |-> conversations_db, after |-> db]

\* another user, or a guest, logs in
LogIn(st) ==
    /\ pc = "store"
    /\ st # session_state
    /\ session_state' = st
    /\ UNCHANGED << DATABASE_PATH, file, history, pc, query, max_iterations, n_iterations,
                    messages, response, call_index, outcome, n_invocations, invoked_with,
                    last_call, driver_calls, displayed, conversations_db, uploaded_file,
                    other_run, db_calls >>
    /\ UNCHANGED aloneVars

SaveSession(session_id, ms, engine_ok) ==
    /\ pc = "store"
    /\ Len(db_calls) < MaxDbCalls
    /\ LET r == save_session(session_id, "Chat@then", ms, session_state, conversations_db,
                             engine_ok)
       IN /\ conversations_db' = r.db
          /\ db_calls' = Append(db_calls,
                DbCall("save_session", session_id, ms, engine_ok, r.returned, <<>>, r.db))
    /\ UNCHANGED << DATABASE_PATH, file, history, pc, query, max_iterations, n_iterations,
                    messages, response, call_index, outcome, n_invocations, invoked_with,
                    last_call, driver_calls, displayed, session_state, uploaded_file,
                    other_run >>
    /\ UNCHANGED aloneVars

LoadSession(session_id, engine_ok) ==
    /\ pc = "store"
    /\ Len(db_calls) < MaxDbCalls
    /\ db_calls' = Append(db_calls,
          DbCall("load_session", session_id, <<>>, engine_ok, NoSessionId,
                 load_session(session_id, session_state, conversations_db, engine_ok),
                 conversations_db))
    /\ UNCHANGED << DATABASE_PATH, file, history, pc, query, max_iterations, n_iterations,
                    messages, response, call_index, outcome, n_invocations, invoked_with,
                    last_call, driver_calls, displayed, session_state, conversations_db,
                    uploaded_file, other_run >>
    /\ UNCHANGED aloneVars

DeleteSession(session_id, engine_ok, save_ok) ==
    /\ pc = "store"
    /\ Len(db_calls) < MaxDbCalls
    /\ \E r \in { delete_session(session_id, session_state, conversations_db,
                                 engine_ok, save_ok) } :
          /\ session_state' = r.st
          /\ conversations_db' = r.db
          /\ history' = IF r.reset THEN create_history ELSE history
          /\ db_calls' = Append(db_calls,
                DbCall("delete_session", session_id, <<>>, engine_ok,
                       r.st.current_session_id, <<>>, r.db))
    /\ UNCHANGED << DATABASE_PATH, file, pc, query, max_iterations, n_iterations,
                    messages, response, call_index, outcome, n_invocations, invoked_with,
                    last_call, driver_calls, displayed, uploaded_file, other_run >>
    /\ UNCHANGED aloneVars

ListSessions(engine_ok) ==
    /\ pc = "store"
    /\ Len(db_calls) < MaxDbCalls
    /\ db_calls' = Append(db_calls,
          DbCall("list_sessions", NoSessionId, <<>>, engine_ok,
                 list_sessions(session_state, conversations_db, engine_ok), <<>>,
                 conversations_db))
    /\ UNCHANGED << DATABASE_PATH, file, history, pc, query, max_iterations, n_iterations,
                    messages, response, call_index, outcome, n_invocations, invoked_with,
                    last_call, driver_calls, displayed, session_state, conversations_db,
                    uploaded_file, other_run >>
    /\ UNCHANGED aloneVars

\* the session states of a login: a guest, or a registered user whose current
\* chat is none or one of the user's own
LoginStates ==
    { GuestState }
      \cup UNION { { [UserState(u) EXCEPT !.current_session_id = c] :
                       c \in { NoSessionId }
                               \cup { row.session_id : row \in SessionsOf(conversations_db, u) } } :
                   u \in Users }

StoreInit ==
    /\ DATABASE_PATH = "None"
    /\ file = NoFile
    /\ history = create_history
    /\ pc = "store"
    /\ query = ""
    /\ max_iterations = 0
    /\ n_iterations = 0
    /\ messages = <<>>
    /\ response = NoResponse
    /\ call_index = 0
    /\ outcome = NoOutcome
    /\ n_invocations = 0
    /\ invoked_with = <<>>
    /\ last_call = NoCall
    /\ driver_calls = 0
    /\ displayed = <<>>
    /\ session_state \in { UserState(u) : u \in Users } \cup { GuestState }
    /\ conversations_db \in { EmptyDb, OneSessionDb }
    /\ uploaded_file = [b \in Browsers |-> "None"]
    /\ other_run = "idle"
    /\ db_calls = <<>>
    /\ users_db = {}
    /\ last_scope = NoScope
    /\ clicked = NoClick

\* the session ids a caller can hold: None, or an id the table has handed out
SessionIds == { NoSessionId } \cup 1..(conversations_db.auto_increment - 1)

StoreNext ==
    \/ \E st \in { UserState(u) : u \in Users } \cup { GuestState } : LogIn(st)
    \/ \E session_id \in SessionIds, ms \in ConversationStates, engine_ok \in BOOLEAN :
          SaveSession(session_id, ms, engine_ok)
    \/ \E session_id \in SessionIds, engine_ok \in BOOLEAN : LoadSession(session_id, engine_ok)

StoreSpec == StoreInit /\ [][StoreNext]_vars

\* the four operations on chat sessions, called by two users and a guest with
\* any session id the table has handed out
OwnershipNext ==
    \/ \E st \in LoginStates : LogIn(st)
    \/ \E session_id \in SessionIds, engine_ok \in BOOLEAN :
          SaveSession(session_id, create_history \o << HumanMessage(<< "q" >>) >>, engine_ok)
    \/ \E session_id \in SessionIds, engine_ok \in BOOLEAN : LoadSession(session_id, engine_ok)
    \/ \E session_id \in SessionIds, engine_ok \in BOOLEAN, save_ok \in BOOLEAN :
          DeleteSession(session_id, engine_ok, save_ok)
    \/ \E engine_ok \in BOOLEAN : ListSessions(engine_ok)

OwnershipSpec == StoreInit /\ [][OwnershipNext]_vars

-----------------------------------------------------------------------------
(* app.py: the chat of one browser session (browser 1) in a Streamlit process
   that also serves another browser session (browser 2).  Every script run
   starts by resetting Config.Path.DATABASE_PATH, the handle shared by the
   process, and sets it again when the run's uploader holds a file. *)

\* largest number of prompts submitted in the chat
MaxTurns == 2

\* the uploaded files: a.db holds table t, b.db holds table u
UploadedDb(path) ==
    IF path = "a.db" THEN SqliteFile(Absent, 1, Absent) ELSE SqliteFile(Absent, Absent, 1)

\* the file at Config.Path.UPLOADED_DB_DIR / name, when the handle is set
FileAt(path) == IF path = "None" THEN NoFile ELSE UploadedDb(path)

\* the table after the session start of QM1 saved its empty chat as session 1
FreshSessionDb ==
    save_session(NoSessionId, "", create_history, UserState("QM1"), EmptyDb, TRUE).db

\* what an assistant message asks for in the chat
WebResponses ==
    { AIMessage(<< "answer" >>, <<>>),
      AIMessage(<<>>, << ToolCall("list_tables", Reasoning, CallId(1)) >>),
      AIMessage(<<>>, << ToolCall("plot_chart", Reasoning, CallId(1)) >>) }

UsageLimitKeywords == { "limit exceeded", "rate limit", "quota exceeded" }

\* the except branch of the chat input: which st.error is shown for str(e)
WebError(text) ==
    IF \E keyword \in UsageLimitKeywords : Contains(lower(text), keyword)
    THEN << "Usage limit exceeded. Please try again later or upgrade your plan. Error: "
            \o text >>
    ELSE << "Error processing your request: " \o text >>

HumanCount(ms) == Cardinality({ i \in 1..Len(ms) : ms[i].type = "human" })

\* the user submits a prompt: a script run of browser 1 starts
Submit(prompt) ==
    /\ pc = "idle"
    /\ HumanCount(history) < MaxTurns
    /\ pc' = "top"
    /\ query' = prompt
    /\ UNCHANGED << DATABASE_PATH, file, history, max_iterations, n_iterations, messages,
                    response, call_index, outcome, n_invocations, invoked_with, last_call,
                    driver_calls, displayed >>
    /\ UNCHANGED webVars
    /\ UNCHANGED aloneVars

\* app.py:67 in the run of browser 1
ResetHandle ==
    /\ pc = "top"
    /\ pc' = "upload"
    /\ DATABASE_PATH' = "None"
    /\ file' = FileAt("None")
    /\ UNCHANGED << history, query, max_iterations, n_iterations, messages,
                    response, call_index, outcome, n_invocations, invoked_with, last_call,
                    driver_calls, displayed >>
    /\ UNCHANGED webVars
    /\ UNCHANGED aloneVars

\* upload handling in the run of browser 1: save_uploaded_file sets the handle;
\* without a prompt the run ends here
UploadHandling ==
    /\ pc = "upload"
    /\ pc' = IF query = "" THEN "idle" ELSE "chat"
    /\ DATABASE_PATH' = IF uploaded_file[1] # "None" THEN uploaded_file[1] ELSE DATABASE_PATH
    /\ file' = FileAt(DATABASE_PATH')
    /\ UNCHANGED << history, query, max_iterations, n_iterations, messages,
                    response, call_index, outcome, n_invocations, invoked_with, last_call,
                    driver_calls, displayed >>
    /\ UNCHANGED webVars
    /\ UNCHANGED aloneVars

\* the chat input: the prompt is appended and saved; without a database the
\* upload request is shown, otherwise ask(prompt, st.session_state.messages, llm)
ChatInput(engine_ok) ==
    /\ pc = "chat"
    /\ history' = Append(history, HumanMessage(<< query >>))
    /\ conversations_db' =
          save_session(session_state.current_session_id, "Chat", history',
                       session_state, conversations_db, engine_ok).db
    /\ IF DATABASE_PATH = "None" \/ file.kind = "absent"
       THEN /\ pc' = "idle"
            /\ query' = ""
            /\ displayed' = << "Please upload a valid SQLite database file first." >>
            /\ UNCHANGED << max_iterations, n_iterations, messages, response, call_index,
                            outcome, n_invocations, invoked_with, last_call >>
       ELSE /\ AskEntry(query, history', MaxIterations)
            /\ UNCHANGED displayed
    /\ UNCHANGED << DATABASE_PATH, file, driver_calls, session_state, uploaded_file,
                    other_run, db_calls >>
    /\ UNCHANGED aloneVars

\* a run started by a click on a chat of the sidebar's list: after the upload
\* handling, the chat is made the current one, its history is loaded and the
\* script is rerun
SelectSession(session_id, engine_ok) ==
    /\ pc = "upload"
    /\ query = ""
    /\ Len(db_calls) < MaxDbCalls
    /\ \E listed \in list_sessions(session_state, conversations_db, TRUE) :
          listed[1] = session_id
    /\ pc' = "top"
    /\ DATABASE_PATH' = IF uploaded_file[1] # "None" THEN uploaded_file[1] ELSE DATABASE_PATH
    /\ file' = FileAt(DATABASE_PATH')
    /\ session_state' = [session_state EXCEPT !.current_session_id = session_id]
    /\ history' = load_session(session_id, session_state, conversations_db, engine_ok)
    /\ db_calls' = Append(db_calls,
          [op |-> "load_session", session_id |-> session_id, history |-> history'])
    /\ UNCHANGED << query, max_iterations, n_iterations, messages, response, call_index,
                    outcome, n_invocations, invoked_with, last_call, driver_calls, displayed,
                    conversations_db, uploaded_file, other_run >>
    /\ UNCHANGED aloneVars

\* after ask: the answer is shown, appended and saved, and the script is rerun;
\* an exception is caught and one of the two error messages is shown
WebResult(engine_ok) ==
    /\ pc = "ended"
    /\ query' = ""
    /\ IF outcome.kind = "return"
       THEN /\ pc' = "top"
            /\ displayed' = outcome.value
            /\ history' = Append(history, AIMessage(outcome.value, <<>>))
            /\ conversations_db' =
                  save_session(session_state.current_session_id, "Chat", history',
                               session_state, conversations_db, engine_ok).db
       ELSE /\ pc' = "idle"
            /\ displayed' = WebError(outcome.value[2])
            /\ UNCHANGED << history, conversations_db >>
    /\ n_invocations' = 0
    /\ invoked_with' = <<>>
    /\ last_call' = NoCall
    /\ UNCHANGED << DATABASE_PATH, file, max_iterations, n_iterations, messages, response,
                    call_index, outcome, driver_calls, session_state, uploaded_file,
                    other_run, db_calls >>
    /\ UNCHANGED aloneVars

\* app.py:67 in a run of browser 2
OtherReset ==
    /\ other_run = "idle"
    /\ other_run' = "upload"
    /\ DATABASE_PATH' = "None"
    /\ file' = FileAt("None")
    /\ UNCHANGED << history, pc, query, max_iterations, n_iterations, messages,
                    response, call_index, outcome, n_invocations, invoked_with, last_call,
                    driver_calls, displayed, session_state, conversations_db,
                    uploaded_file, db_calls >>
    /\ UNCHANGED aloneVars

\* upload handling in a run of browser 2
OtherUpload ==
    /\ other_run = "upload"
    /\ other_run' = "idle"
    /\ DATABASE_PATH' = IF uploaded_file[2] # "None" THEN uploaded_file[2] ELSE DATABASE_PATH
    /\ file' = FileAt(DATABASE_PATH')
    /\ UNCHANGED << history, pc, query, max_iterations, n_iterations, messages,
                    response, call_index, outcome, n_invocations, invoked_with, last_call,
                    driver_calls, displayed, session_state, conversations_db,
                    uploaded_file, db_calls >>
    /\ UNCHANGED aloneVars

\* browser 1 is logged in (as QM1 with its fresh session 1, or as a guest) and
\* has run the script once; each uploader holds a file or none
WebInit ==
    /\ \E up \in [Browsers -> {"None", "a.db", "b.db"}] :
          /\ up[1] # "b.db"
          /\ up[2] # "a.db"
          /\ uploaded_file = up
          /\ DATABASE_PATH = up[1]
          /\ file = FileAt(up[1])
    /\ \/ session_state = GuestState /\ conversations_db = EmptyDb
       \/ /\ session_state = [UserState("QM1") EXCEPT !.current_session_id = 1]
          /\ conversations_db = FreshSessionDb
    /\ history = create_history
    /\ pc = "idle"
    /\ query = ""
    /\ max_iterations = 0
    /\ n_iterations = 0
    /\ messages = <<>>
    /\ response = NoResponse
    /\ call_index = 0
    /\ outcome = NoOutcome
    /\ n_invocations = 0
    /\ invoked_with = <<>>
    /\ last_call = NoCall
    /\ driver_calls = 0
    /\ displayed = <<>>
    /\ other_run = "idle"
    /\ db_calls = <<>>
    /\ users_db = {}
    /\ last_scope = NoScope
    /\ clicked = NoClick

WebNext ==
    \/ Submit("q")
    \/ ResetHandle
    \/ UploadHandling
    \/ \E engine_ok \in BOOLEAN : ChatInput(engine_ok)
    \/ \E resp \in WebResponses : InvokeModel(resp)
    \/ \E e \in ProviderErrors : ProviderFails(e)
    \/ DispatchToolCall
    \/ IterationLimit
    \/ \E engine_ok \in BOOLEAN : WebResult(engine_ok)
    \/ OtherReset
    \/ OtherUpload

WebSpec == WebInit /\ [][WebNext]_vars

\* the chat of browser 1 on its own, with the sidebar's list of chats: browser 2
\* makes no script run
ResumeInit ==
    /\ WebInit
    /\ uploaded_file[2] = "None"

ResumeNext ==
    \/ Submit("q")
    \/ ResetHandle
    \/ UploadHandling
    \/ \E engine_ok \in BOOLEAN : ChatInput(engine_ok)
    \/ \E resp \in WebResponses : InvokeModel(resp)
    \/ \E e \in ProviderErrors : ProviderFails(e)
    \/ DispatchToolCall
    \/ IterationLimit
    \/ \E engine_ok \in BOOLEAN : WebResult(engine_ok)
    \/ \E session_id \in SessionIds, engine_ok \in BOOLEAN : SelectSession(session_id, engine_ok)

ResumeSpec == ResumeInit /\ [][ResumeNext]_vars

-----------------------------------------------------------------------------
(* auth.py: the accounts.  The users table holds user_id and username (the
   e-mail address, unique as well, goes with the username); the conversations
   database is the one of the persistence above. *)

\* the names chosen at registration
Usernames == { "alice", "bob" }

\* the passwords typed at registration: one that passes the checks, one that does not
Passwords == { "Passw0rd@", "password" }

SpecialCharacters == << "@", "#", "$", "%", "^", "&", "+", "=" >>

\* re.search(r"[...]", s) for a class given as the sequence of its characters
HasCharOf(s, class) ==
    \E i \in 1..Len(s) : \E k \in 1..Len(class) : SubSeq(s, i, i) = class[k]

\* the password checks of register_user
PasswordAccepted(password) ==
    /\ Len(password) >= 8
    /\ HasCharOf(password, UpperCase)
    /\ HasCharOf(password, LowerCase)
    /\ HasCharOf(password, Digit)
    /\ HasCharOf(password, SpecialCharacters)

UserRow(user_id, username) == [user_id |-> user_id, username |-> username]

\* re.match(r"QM(\d+)", uid)
MatchesQM(uid) ==
    /\ Len(uid) >= 3
    /\ SubSeq(uid, 1, 2) = "QM"
    /\ HasCharOf(SubSeq(uid, 3, 3), Digit)

DigitValue(c) == (CHOOSE k \in 1..10 : Digit[k] = c) - 1

\* int() of the digits of uid from position i on, acc being the value so far
RECURSIVE DigitRun(_, _, _)
DigitRun(uid, i, acc) ==
    IF i > Len(uid) \/ ~HasCharOf(SubSeq(uid, i, i), Digit) THEN acc
    ELSE DigitRun(uid, i + 1, acc * 10 + DigitValue(SubSeq(uid, i, i)))

\* int(re.match(r"QM(\d+)", uid).group(1))
UserNumber(uid) == DigitRun(uid, 3, 0)

\* get_next_user_id handing out the number after the largest one in use
get_next_user_id_AfterMax(users) ==
    LET user_ids == { row.user_id : row \in users }
        numbers == { UserNumber(uid) : uid \in { u \in user_ids : MatchesQM(u) } }
    IN IF user_ids = {} THEN "QM1"
       ELSE IF numbers = {} THEN "QM1"
       ELSE LET max_num == CHOOSE n \in numbers : \A m \in numbers : m <= n
            IN "QM" \o NatStr(max_num + 1)

\* get_next_user_id(): the first i of range(1, max_num + 2) that is not in numbers
get_next_user_id(users) ==
    LET user_ids == { row.user_id : row \in users }
        numbers == { UserNumber(uid) : uid \in { u \in user_ids : MatchesQM(u) } }
    IN IF user_ids = {} THEN "QM1"
       ELSE IF numbers = {} THEN "QM1"
       ELSE LET max_num == CHOOSE n \in numbers : \A m \in numbers : m <= n
            IN "QM" \o NatStr(CHOOSE i \in 1..(max_num + 1) :
                                 /\ i \notin numbers
                                 /\ \A j \in 1..(i - 1) : j \in numbers)

(* register_user(name, username, email, password): what it returns and the users
   table afterwards.  engine_ok is whether the users database carries out the
   statements and the commit; a username in use fails the INSERT with an
   IntegrityError. *)
register_user(username, password, users, engine_ok) ==
    IF ~PasswordAccepted(password) THEN [returned |-> FALSE, users |-> users]
    ELSE IF ~engine_ok THEN [returned |-> FALSE, users |-> users]
    ELSE IF \E row \in users : row.username = username
    THEN [returned |-> FALSE, users |-> users]
    ELSE [returned |-> TRUE,
          users |-> users \cup { UserRow(get_next_user_id(users), username) }]

\* login_user(username, password) with the user's password: the session state
\* after the login, or none
login_user(username, users) ==
    { UserState(row.user_id) : row \in { r \in users : r.username = username } }

(* delete_user(user_id): what it returns, the users table and the sessions table
   afterwards.  The DELETE on users is committed when its with block is left,
   before the conversations database is connected to; users_ok and
   conversations_ok are whether each database carries out its statement and
   commit. *)
delete_user(user_id, users, db, users_ok, conversations_ok) ==
    IF ~users_ok THEN [returned |-> FALSE, users |-> users, db |-> db]
    ELSE IF ~conversations_ok
    THEN [returned |-> FALSE, users |-> { row \in users : row.user_id # user_id }, db |-> db]
    ELSE [returned |-> TRUE,
          users |-> { row \in users : row.user_id # user_id },
          db |-> [db EXCEPT !.rows = { row \in db.rows : row.user_id # user_id }]]

AccountCall(op, argument, returned, users, db) ==
    [op |-> op, st |-> session_state, argument |-> argument, returned |-> returned,
     users_before |-> users_db, users_after |-> users,
     before |-> conversations_db, after |-> db]

\* the Create Account button of the registration page
RegisterUser(username, password, engine_ok) ==
    /\ pc = "store"
    /\ Len(db_calls) < MaxDbCalls
    /\ \E r \in { register_user(username, password, users_db, engine_ok) } :
          /\ users_db' = r.users
          /\ db_calls' = Append(db_calls,
                AccountCall("register_user", username, r.returned, r.users, conversations_db))
    /\ UNCHANGED << DATABASE_PATH, file, history, pc, query, max_iterations, n_iterations,
                    messages, response, call_index, outcome, n_invocations, invoked_with,
                    last_call, driver_calls, displayed, session_state, conversations_db,
                    uploaded_file, other_run, last_scope, clicked >>

\* the Login button, in the browser session: the user logs in
LoginUser(username) ==
    /\ pc = "store"
    /\ \E st \in login_user(username, users_db) :
          /\ st # session_state
          /\ session_state' = st
    /\ UNCHANGED << DATABASE_PATH, file, history, pc, query, max_iterations, n_iterations,
                    messages, response, call_index, outcome, n_invocations, invoked_with,
                    last_call, driver_calls, displayed, conversations_db, uploaded_file,
                    other_run, db_calls, users_db, last_scope, clicked >>

\* the Delete Account button of the settings, shown to a registered user: when
\* delete_user returns True, logout() clears the session state
DeleteAccount(users_ok, conversations_ok) ==
    /\ pc = "store"
    /\ Len(db_calls) < MaxDbCalls
    /\ ~session_state.is_guest
    /\ \E r \in { delete_user(session_state.user_id, users_db, conversations_db,
                              users_ok, conversations_ok) } :
          /\ users_db' = r.users
          /\ conversations_db' = r.db
          /\ session_state' = IF r.returned THEN GuestState ELSE session_state
          /\ displayed' = IF r.returned THEN << "Logging out..." >>
                          ELSE << "Failed to delete account." >>
          /\ db_calls' = Append(db_calls,
                AccountCall("delete_user", session_state.user_id, r.returned, r.users, r.db))
    /\ UNCHANGED << DATABASE_PATH, file, history, pc, query, max_iterations, n_iterations,
                    messages, response, call_index, outcome, n_invocations, invoked_with,
                    last_call, driver_calls, uploaded_file, other_run, last_scope, clicked >>

\* the users tables after the registrations of alice, and of alice and bob
RegisteredUsers ==
    LET one == register_user("alice", "Passw0rd@", {}, TRUE).users
    IN { {}, one, register_user("bob", "Passw0rd@", one, TRUE).users }

\* the databases after some registrations and, at most, the first saved chat of
\* QM1; a registered user, or nobody, is logged in
AccountInit ==
    /\ DATABASE_PATH = "None"
    /\ file = NoFile
    /\ history = create_history
    /\ pc = "store"
    /\ query = ""
    /\ max_iterations = 0
    /\ n_iterations = 0
    /\ messages = <<>>
    /\ response = NoResponse
    /\ call_index = 0
    /\ outcome = NoOutcome
    /\ n_invocations = 0
    /\ invoked_with = <<>>
    /\ last_call = NoCall
    /\ driver_calls = 0
    /\ displayed = <<>>
    /\ users_db \in RegisteredUsers
    /\ session_state \in { UserState(row.user_id) : row \in users_db } \cup { GuestState }
    /\ conversations_db \in { EmptyDb } \cup (IF users_db = {} THEN {} ELSE { OneSessionDb })
    /\ uploaded_file = [b \in Browsers |-> "None"]
    /\ other_run = "idle"
    /\ db_calls = <<>>
    /\ last_scope = NoScope
    /\ clicked = NoClick

AccountNext ==
    \/ \E username \in Usernames, password \in Passwords, engine_ok \in BOOLEAN :
          RegisterUser(username, password, engine_ok)
    \/ \E username \in Usernames : LoginUser(username)
    \/ \E users_ok \in BOOLEAN, conversations_ok \in BOOLEAN :
          DeleteAccount(users_ok, conversations_ok)
    \/ \E session_id \in SessionIds, engine_ok \in BOOLEAN :
          SaveSession(session_id, create_history \o << HumanMessage(<< "q" >>) >>, engine_ok)

AccountSpec == AccountInit /\ [][AccountNext]_vars

-----------------------------------------------------------------------------
(* app.py and auth.py: the login gate.  Here st.session_state is the mapping
   from the keys it holds to their values; a key that was never set, or was
   deleted, is not in its domain. *)

\* largest number of chat sessions created by logins
MaxLogins == 2

\* a browser session that has run nothing yet
NoKeys == [k \in {} |-> FALSE]

\* st.session_state.get(key, False)
Get(st, key) == IF key \in DOMAIN st THEN st[key] ELSE FALSE

\* st.session_state[key] = value
Put(st, key, value) == [k \in DOMAIN st \cup { key } |-> IF k = key THEN value ELSE st[k]]

\* if key not in st.session_state: st.session_state[key] = value
PutDefault(st, key, value) == IF key \in DOMAIN st THEN st ELSE Put(st, key, value)

\* what a script run leaves on the page
LoginPage == << "Login" >>
RegisterPage == << "Register" >>
ChatPage == << "QueryMind" >>

Click(widget, input) == [widget |-> widget, input |-> input]

\* the widget events of the page on display
Clicks ==
    IF displayed = LoginPage
    THEN { Click("Login", username) : username \in Usernames \cup { "mallory" } }
           \cup { Click("Continue as Guest", ""), Click("Register Account", "") }
    ELSE IF displayed = RegisterPage THEN { Click("Back to Login", "") }
    ELSE IF displayed = ChatPage THEN { Click("Logout", ""), Click("Chat History", "") }
    ELSE {}

\* the browser opens the page: the first script run of the browser session
OpenPage ==
    /\ pc = "idle"
    /\ displayed = <<>>
    /\ pc' = "gate"
    /\ UNCHANGED << DATABASE_PATH, file, history, query, max_iterations, n_iterations,
                    messages, response, call_index, outcome, n_invocations, invoked_with,
                    last_call, driver_calls, displayed >>
    /\ UNCHANGED webVars
    /\ UNCHANGED aloneVars

\* the user presses a widget of the page on display: a script run starts
Press(click) ==
    /\ pc = "idle"
    /\ click \in Clicks
    /\ click.widget = "Login" => conversations_db.auto_increment <= MaxLogins
    /\ pc' = "gate"
    /\ clicked' = click
    /\ UNCHANGED << DATABASE_PATH, file, history, query, max_iterations, n_iterations,
                    messages, response, call_index, outcome, n_invocations, invoked_with,
                    last_call, driver_calls, displayed, users_db, last_scope >>
    /\ UNCHANGED webVars

\* logout(): every key is deleted, the two flags are set, st.rerun()
logout == [authenticated |-> FALSE, force_login_page |-> TRUE]

\* st.rerun(): the run is left and the script starts again, no widget pressed
Rerun ==
    /\ pc' = "gate"
    /\ clicked' = NoClick

\* show_login_page(): the page named by auth_page with the handlers of its
\* buttons; a handler that changes the state ends with st.rerun(), otherwise
\* the page is left on display and the caller goes on (shown is that page)
show_login_page(st, shown) ==
    LET page == st.auth_page
        user == login_user(clicked.input, users_db)
    IN IF page = "login" /\ clicked.widget = "Login" /\ user # {}
       THEN /\ \E u \in user :
                  session_state' =
                     Put(Put(Put(Put(st, "authenticated", TRUE), "is_guest", FALSE),
                             "user_id", u.user_id), "sidebar_nav", "Database Info")
            /\ displayed' = << "Welcome" >>
            /\ Rerun
       ELSE IF page = "login" /\ clicked.widget = "Continue as Guest"
       THEN /\ session_state' =
                  Put(Put(Put(Put(st, "authenticated", TRUE), "is_guest", TRUE),
                          "user_id", "None"), "sidebar_nav", "Database Info")
            /\ UNCHANGED displayed
            /\ Rerun
       ELSE IF page = "login" /\ clicked.widget = "Register Account"
       THEN /\ session_state' = Put(st, "auth_page", "register")
            /\ UNCHANGED displayed
            /\ Rerun
       ELSE IF page = "register" /\ clicked.widget = "Back to Login"
       THEN /\ session_state' = Put(st, "auth_page", "login")
            /\ UNCHANGED displayed
            /\ Rerun
       ELSE /\ session_state' = shown
            /\ displayed' = IF page = "login" THEN LoginPage ELSE RegisterPage
            /\ pc' = "idle"
            /\ clicked' = NoClick

\* the gate testing force_login_page only
Gate_ForceOnly ==
    /\ pc = "gate"
    /\ IF Get(session_state, "force_login_page")
       THEN \E st \in { PutDefault(PutDefault(session_state, "auth_page", "login"),
                                   "registration_success", FALSE) } :
               show_login_page(st, Put(st, "force_login_page", FALSE))
       ELSE /\ pc' = "body"
            /\ UNCHANGED << session_state, displayed, clicked >>
    /\ UNCHANGED << DATABASE_PATH, file, history, query, max_iterations, n_iterations,
                    messages, response, call_index, outcome, n_invocations, invoked_with,
                    last_call, driver_calls, conversations_db, uploaded_file, other_run,
                    db_calls, users_db, last_scope >>

\* the authentication check at the head of the script: the login page, then
\* force_login_page = False and st.stop(); or the script goes on
Gate ==
    /\ pc = "gate"
    /\ IF Get(session_state, "force_login_page") \/ ~Get(session_state, "authenticated")
       THEN \E st \in { PutDefault(PutDefault(session_state, "auth_page", "login"),
                                   "registration_success", FALSE) } :
               show_login_page(st, Put(st, "force_login_page", FALSE))
       ELSE /\ pc' = "body"
            /\ UNCHANGED << session_state, displayed, clicked >>
    /\ UNCHANGED << DATABASE_PATH, file, history, query, max_iterations, n_iterations,
                    messages, response, call_index, outcome, n_invocations, invoked_with,
                    last_call, driver_calls, conversations_db, uploaded_file, other_run,
                    db_calls, users_db, last_scope >>

\* the script after the gate: the handle is reset, the chat session of the
\* browser session is set up (saved as a new row for a registered user), the
\* page is built; the Logout button calls logout()
Body(engine_ok) ==
    /\ pc = "body"
    /\ DATABASE_PATH' = "None"
    /\ file' = FileAt("None")
    /\ \E s \in { save_session(NoSessionId, "", create_history, session_state,
                               conversations_db, engine_ok) } :
       \E st \in { IF "current_session_id" \in DOMAIN session_state THEN session_state
                   ELSE Put(session_state, "current_session_id", s.returned) } :
          /\ conversations_db' = IF "current_session_id" \in DOMAIN session_state
                                 THEN conversations_db ELSE s.db
          /\ IF clicked.widget = "Logout"
             THEN /\ session_state' = logout
                  /\ displayed' = << "Logging out..." >>
                  /\ Rerun
             ELSE /\ session_state' =
                        IF clicked.widget = "Chat History"
                        THEN Put(st, "sidebar_nav", "Chat History") ELSE st
                  /\ displayed' = ChatPage
                  /\ pc' = "idle"
                  /\ clicked' = NoClick
    /\ UNCHANGED << history, query, max_iterations, n_iterations, messages, response,
                    call_index, outcome, n_invocations, invoked_with, last_call,
                    driver_calls, uploaded_file, other_run, db_calls, users_db, last_scope >>

\* a new browser session; alice and bob are registered
GateInit ==
    /\ DATABASE_PATH = "None"
    /\ file = NoFile
    /\ history = create_history
    /\ pc = "idle"
    /\ query = ""
    /\ max_iterations = 0
    /\ n_iterations = 0
    /\ messages = <<>>
    /\ response = NoResponse
    /\ call_index = 0
    /\ outcome = NoOutcome
    /\ n_invocations = 0
    /\ invoked_with = <<>>
    /\ last_call = NoCall
    /\ driver_calls = 0
    /\ displayed = <<>>
    /\ session_state = NoKeys
    /\ conversations_db = EmptyDb
    /\ uploaded_file = [b \in Browsers |-> "None"]
    /\ other_run = "idle"
    /\ db_calls = <<>>
    /\ users_db \in { users \in RegisteredUsers : Cardinality(users) = 2 }
    /\ last_scope = NoScope
    /\ clicked = NoClick

GateNext ==
    \/ OpenPage
    \/ \E click \in Clicks : Press(click)
    \/ Gate
    \/ \E engine_ok \in BOOLEAN : Body(engine_ok)

GateSpec == GateInit /\ [][GateNext]_vars

-----------------------------------------------------------------------------
(* Properties *)

Registry == { get_available_tools[i] : i \in 1..Len(get_available_tools) }

\* the latest call_tool was made, and on a request the tool itself accepts
Called == last_call.request.name # ""
Accepted ==
    /\ Called
    /\ last_call.request.name \in Registry
    /\ ValidArgs(last_call.request.name, last_call.request.args)

NoDatabase == last_call.path = "None" \/ last_call.before.kind = "absent"

\* what the engine did with the statement of the latest execute_sql
Engine == Execute(ParseSql(last_call.request.args.sql_query.s), last_call.before)

\* in ms, every assistant message with k requests is followed by exactly k
\* tool results, the j-th carrying the identifier of the j-th request
Paired(ms) ==
    /\ \A i \in 1..Len(ms) :
          ms[i].type = "ai" =>
             LET k == Len(ms[i].tool_calls) IN
             /\ i + k <= Len(ms)
             /\ \A j \in 1..k : /\ ms[i + j].type = "tool"
                                /\ ms[i + j].tool_call_id = ms[i].tool_calls[j].id
             /\ (i + k + 1 <= Len(ms) => ms[i + k + 1].type # "tool")
    /\ \A i \in 1..Len(ms) : ms[i].type = "tool" => i > 1 /\ ms[i - 1].type \in {"ai", "tool"}

\* C1: every message sequence handed to a model invocation, and the sequence
\* ask holds whenever it is about to invoke the model, is paired: each assistant
\* message with k tool-call requests is followed by exactly k tool results
\* carrying the requests' identifiers in the same order.
C1_PairingInvariant ==
    /\ Paired(invoked_with)
    /\ (pc = "loop" => Paired(messages))

\* a model invocation that was handed a batch of two requests with their two results
C1_Witness ==
    /\ n_invocations >= 2
    /\ \E i \in 1..Len(invoked_with) :
          invoked_with[i].type = "ai" /\ Len(invoked_with[i].tool_calls) = 2

\* ask has ended and every response of the model carried tool-call requests: it
\* did not return (it returns exactly on a response without requests) and the
\* model did not fail
EndedAlwaysRequestingTools ==
    /\ pc = "ended"
    /\ outcome.kind = "raise"
    /\ \A e \in ProviderErrors : outcome.value[1] # e[1]

\* C2: when every response of the model requested a tool call and ask has ended,
\* it ended with the iteration limit after exactly max_iterations model
\* invocations.
C2_ExactlyCeilingRounds ==
    EndedAlwaysRequestingTools
      => (outcome = IterationLimitError /\ n_invocations = max_iterations)

\* C3: ask never invokes the model more than max_iterations times, and once
\* started it always ends (returns or raises).
C3_Terminates ==
    /\ [](n_invocations <= max_iterations)
    /\ ((pc \in {"loop", "dispatch"}) ~> (pc = "ended"))

\* ask ended with the iteration limit after a full run of tool-calling rounds
C3_Witness ==
    /\ pc = "ended"
    /\ outcome = IterationLimitError
    /\ n_invocations = MaxIterations

\* C4: call_tool returns a tool-result message for every request and never raises.
C4_DispatcherTotal ==
    Called => (last_call.raised = "" /\ Len(last_call.message) = 1)

\* C5: a request naming a tool that is not in the registry gets a tool-result
\* message tagged with the request's identifier, and the turn is not aborted.
C5_UnknownToolReported ==
    (Called /\ last_call.request.name \notin Registry)
      => /\ last_call.raised = ""
         /\ Len(last_call.message) = 1
         /\ last_call.message[1].tool_call_id = last_call.request.id
         /\ outcome.kind # "raise"

\* the declared parameter contract: every parameter present and of its type,
\* and row_sample_size positive
SatisfiesContract(name, args) ==
    /\ ValidArgs(name, args)
    /\ (name = "sample_table" => args.row_sample_size.n > 0)

\* C6: a request to a registered tool whose arguments do not satisfy the tool's
\* contract never reaches the database and is answered by a tool-result message,
\* not by a raised exception.
C6_ContractMismatchReported ==
    (Called /\ last_call.request.name \in Registry
        /\ ~SatisfiesContract(last_call.request.name, last_call.request.args))
      => /\ last_call.events = <<>>
         /\ last_call.after = last_call.before
         /\ last_call.raised = ""
         /\ Len(last_call.message) = 1

\* C7: with the handle unset or its file missing, each of the four tools
\* returns the no-database text without raising and without opening a
\* connection; with the handle set and the file present, no tool result is that text.
C7_NoDatabaseText ==
    Accepted =>
       /\ last_call.raised = ""
       /\ Len(last_call.message) = 1
       /\ (NoDatabase => last_call.message[1].content = NoDatabaseText /\ last_call.events = <<>>)
       /\ (~NoDatabase => last_call.message[1].content # NoDatabaseText)

\* execute_sql answered with the no-database text for a missing file
C7_Witness ==
    /\ Accepted
    /\ last_call.request.name = "execute_sql"
    /\ last_call.path # "None"
    /\ last_call.before.kind = "absent"
    /\ last_call.message[1].content = NoDatabaseText

\* C8: when the statement of execute_sql executes without error its changes are
\* in the file afterwards; the three other tools leave the file as it was.
C8_ExecuteSqlCommits ==
    (Accepted /\ ~NoDatabase) =>
       IF last_call.request.name = "execute_sql"
       THEN Engine.ok => last_call.after = Engine.pending
       ELSE last_call.after = last_call.before

\* C9: when execute_sql fails (it raises, or answers with the no-database text or
\* with the engine's error), the file afterwards is the file before the call.
C9_FailedCallCommitsNothing ==
    (Called /\ last_call.request.name = "execute_sql"
        /\ (last_call.raised # "" \/ NoDatabase \/ ~Engine.ok))
      => last_call.after = last_call.before

\* execute_sql failed after its statement had written a row in the open transaction
C9_Witness ==
    /\ Accepted
    /\ last_call.request.name = "execute_sql"
    /\ ~NoDatabase
    /\ ~Engine.ok
    /\ Engine.pending # last_call.before
    /\ last_call.message[1].content = << "Error running query: UNIQUE constraint failed: t.x" >>

Count(ev, e) == Cardinality({ i \in 1..Len(ev) : ev[i] = e })

\* connections open after the first k calls of ev
OpenAfter(ev, k) == Count(SubSeq(ev, 1, k), "connect") - Count(SubSeq(ev, 1, k), "conn.close")
CursorsAfter(ev, k) == Count(SubSeq(ev, 1, k), "cursor") - Count(SubSeq(ev, 1, k), "cur.close")

\* C10: within a tool call at most one connection is open at any time, and when
\* the call is over (returned or failed) its cursor and its connection are closed.
C10_SessionReleased ==
    LET ev == last_call.events IN
    /\ \A k \in 0..Len(ev) : OpenAfter(ev, k) \in {0, 1} /\ CursorsAfter(ev, k) \in {0, 1}
    /\ OpenAfter(ev, Len(ev)) = 0
    /\ CursorsAfter(ev, Len(ev)) = 0

\* a tool call whose statement failed inside the scope, after another tool call
C10_Witness ==
    /\ driver_calls = 2
    /\ Accepted
    /\ ~NoDatabase
    /\ last_call.before.kind = "garbage" \/ last_call.request.name = "sample_table"
    /\ Count(last_call.events, "execute") = 1
    /\ last_call.message[1].content \in
          { << "Error sampling table: no such table: nosuch" >>,
            << "Error listing tables: file is not a database" >> }

\* the request the for loop of ask is about to dispatch
NextRequest == response.tool_calls[call_index + 1]

\* the next request is an execute_sql the tool accepts, on a database that is
\* there, and the engine rejects its statement
EngineRejectsNext ==
    /\ pc = "dispatch"
    /\ NextRequest.name = "execute_sql"
    /\ ValidArgs("execute_sql", NextRequest.args)
    /\ DATABASE_PATH # "None"
    /\ file.kind # "absent"
    /\ ~Execute(ParseSql(NextRequest.args.sql_query.s), file).ok

\* C11: when the engine rejects the statement of an execute_sql request, the
\* dispatch step appends a tool result tagged with the request's identifier and
\* carrying the engine's message to the conversation, and ask goes on (to the
\* next request of the batch or to the while test) instead of ending.
C11_EngineErrorReported ==
    [][ EngineRejectsNext =>
          /\ messages' = Append(messages,
                ToolMessage(<< "Error running query: "
                               \o Execute(ParseSql(NextRequest.args.sql_query.s), file).err >>,
                            NextRequest.id))
          /\ pc' \in {"loop", "dispatch"}
          /\ outcome' = NoOutcome ]_vars

\* the model was invoked a second time, on a conversation holding the engine's
\* syntax error as a tool result
C11_Witness ==
    /\ n_invocations = 2
    /\ \E i \in 1..Len(invoked_with) :
          /\ invoked_with[i].type = "tool"
          /\ invoked_with[i].content = << "Error running query: near \"SELEC\": syntax error" >>

\* C12: when ask has returned, the history the caller passed holds the turn's
\* user message (so that the next turn runs on a history with the earlier turn).
C12_CallerHistoryUpdated ==
    outcome.kind = "return"
      => \E i \in 1..Len(history) : history[i] = HumanMessage(<< query >>)

\* the input lines that spell exit or quit, in some letter case
ExitSpellings == { "exit", "QUIT", "Exit" }

\* C19: the CLI has left its loop exactly when the line read spells exit or quit
\* in some letter case, and leaving invokes nothing; every other line read at
\* the prompt enters ask with that line; when ask has ended, by return or by an
\* exception, the next step prints the response or the error line and the CLI
\* is back at its prompt.
C19_CliLoop ==
    /\ []((pc = "exited") <=> (query \in ExitSpellings))
    /\ [](pc # "crashed")
    /\ [][ pc' = "exited" =>
             /\ pc = "idle"
             /\ displayed' = << "Goodbye!" >>
             /\ UNCHANGED << n_invocations, invoked_with, last_call, outcome, messages >> ]_vars
    /\ [][ (pc = "idle" /\ query' \notin ExitSpellings) =>
             /\ pc' = "loop"
             /\ messages' = Append(history, HumanMessage(<< query' >>)) ]_vars
    /\ [][ pc = "ended" =>
             /\ pc' = "idle"
             /\ displayed' = IF outcome.kind = "return"
                             THEN << "Response:" >> \o outcome.value
                             ELSE << "Error: " \o outcome.value[2] >> ]_vars

\* QUIT was read after a turn that ended with the iteration limit, whose error
\* line was printed before the prompt came back
C19_Witness ==
    /\ pc = "exited"
    /\ query = "QUIT"
    /\ outcome = IterationLimitError

\* C20: ask returns in the very step in which the model answers without
\* tool-call requests: the step is a model invocation below the ceiling, it
\* yields the response's text and dispatches nothing; the model is never invoked
\* on a conversation that ends with an assistant message, and the for loop is
\* only entered with a request to dispatch.
C20_FinalResponseReturns ==
    /\ [](pc = "loop" => messages[Len(messages)].type \in {"human", "tool"})
    /\ [](pc = "dispatch" => call_index < Len(response.tool_calls))
    /\ [][ (outcome'.kind = "return" /\ outcome.kind # "return") =>
             /\ pc = "loop"
             /\ pc' = "ended"
             /\ n_iterations < max_iterations
             /\ n_invocations' = n_invocations + 1
             /\ invoked_with' = messages
             /\ outcome'.value = << "answer" >>
             /\ UNCHANGED << last_call, file >> ]_vars

\* ask returned the answer at its second invocation, after a round of tool calls
C20_Witness ==
    /\ pc = "ended"
    /\ outcome = Returned(<< "answer" >>)
    /\ n_invocations = 2
    /\ last_call.request.name = "list_tables"

\* name starts with the engine-internal prefix sqlite_
StartsWithSqlitePrefix(name) == Len(name) >= 7 /\ SubSeq(name, 1, 7) = "sqlite_"

\* the names of the tables of f from the i-th on, without those with the prefix
RECURSIVE TablesWithoutPrefix(_, _)
TablesWithoutPrefix(f, i) ==
    IF i > Len(TableOrder) THEN <<>>
    ELSE (IF HasTable(f, TableOrder[i]) /\ ~StartsWithSqlitePrefix(TableOrder[i])
          THEN << PyStr(TableOrder[i]) >> ELSE <<>>) \o TablesWithoutPrefix(f, i + 1)

\* C17: on a database file, list_tables returns the list literal of exactly the
\* tables whose name does not start with sqlite_ ("[]" when there is none), and
\* not an error text.
C17_ListsUserTables ==
    (Accepted /\ last_call.request.name = "list_tables" /\ ~NoDatabase
        /\ last_call.before.kind = "sqlite")
      => last_call.message[1].content = << ListStr(TablesWithoutPrefix(last_call.before, 1)) >>

Max(a, b) == IF a > b THEN a ELSE b

\* C18: sample_table on a table with R rows, asked for N rows, returns
\* min(N, R) row lines (none when N is not positive): never more than N.
C18_SampleSize ==
    (Accepted /\ last_call.request.name = "sample_table" /\ ~NoDatabase
        /\ last_call.before.kind = "sqlite"
        /\ HasTable(last_call.before, last_call.request.args.table_name.s))
      => LET N == last_call.request.args.row_sample_size.n
             R == last_call.before.tables[last_call.request.args.table_name.s]
         IN Len(last_call.message[1].content) = Min(Max(N, 0), R)

\* the user and assistant messages of ms, in order, with their text
RECURSIVE Texts(_)
Texts(ms) ==
    IF Len(ms) = 0 THEN <<>>
    ELSE Texts(SubSeq(ms, 1, Len(ms) - 1))
           \o (IF ms[Len(ms)].type \in {"human", "ai"}
               THEN << << ms[Len(ms)].type >> \o ms[Len(ms)].content >>
               ELSE <<>>)

\* the save stored the conversation: the database carried it out, for a
\* registered user, as a new session or on a session that is the user's own
Stored(s) ==
    /\ s.op = "save_session"
    /\ ~s.st.is_guest
    /\ s.engine_ok
    /\ s.session_id # NoSessionId => Matching(s.before, s.session_id, s.st.user_id) # {}

\* C13: when a registered user's save_session has stored a conversation state and
\* the same user's next call is load_session of the session id that save_session
\* returned (and the database answers), the loaded history has the same user
\* and assistant messages, in the same order and with the same text.
C13_RoundTrip ==
    \A i \in 1..(Len(db_calls) - 1) :
       LET s == db_calls[i]
           l == db_calls[i + 1]
       IN (Stored(s) /\ l.op = "load_session" /\ l.st = s.st /\ l.engine_ok
             /\ l.session_id = s.returned)
            => /\ s.returned # NoSessionId
               /\ Texts(l.history) = Texts(s.messages)
               /\ l.history[1] = SystemMessage(SYSTEM_PROMPT)

\* a conversation with tool-internal messages was saved over an existing session
\* of the user and loaded again
C13_Witness ==
    /\ Len(db_calls) = 2
    /\ Stored(db_calls[1])
    /\ db_calls[1].session_id # NoSessionId
    /\ \E j \in 1..Len(db_calls[1].messages) : db_calls[1].messages[j].type = "tool"
    /\ db_calls[2].op = "load_session"
    /\ db_calls[2].st = db_calls[1].st
    /\ db_calls[2].engine_ok
    /\ db_calls[2].session_id = db_calls[1].returned
    /\ Len(db_calls[2].history) = 5

\* C14: every tool call made in the chat of browser 1 executes against the
\* database that browser 1 uploaded.
C14_OwnTarget ==
    Called => last_call.path = uploaded_file[1]

\* C15: ask ends with the RuntimeError of the iteration limit exactly when its
\* while test fails, so that no other failure of a turn carries that class and
\* text; and the web front end shows the usage-limit message exactly for the
\* provider's rate-limit error, and for every other exception (the iteration
\* limit among them) the generic message with the exception's text.
C15_LimitDistinguishable ==
    /\ [][ (outcome' = IterationLimitError /\ outcome # IterationLimitError)
              => (pc = "loop" /\ ~(n_iterations < max_iterations)) ]_vars
    /\ [][ (pc = "loop" /\ pc' = "ended" /\ ~(n_iterations < max_iterations))
              => outcome' = IterationLimitError ]_vars
    /\ [][ (pc = "ended" /\ pc' # "ended" /\ outcome.kind = "raise")
              => displayed' =
                    IF outcome.value[1] = "RateLimitError"
                    THEN << "Usage limit exceeded. Please try again later or upgrade your plan. Error: "
                            \o outcome.value[2] >>
                    ELSE << "Error processing your request: " \o outcome.value[2] >> ]_vars

\* the web front end has shown the iteration limit as a generic error
C15_Witness ==
    /\ pc = "idle"
    /\ outcome = IterationLimitError
    /\ displayed = << "Error processing your request: Maximum number of iterations reached. Please try again with a different query." >>

\* ms can be resumed: one system message, at the head, and every tool-call
\* request with its results
ValidHistory(ms) ==
    /\ Len(ms) >= 1
    /\ ms[1] = SystemMessage(SYSTEM_PROMPT)
    /\ \A i \in 2..Len(ms) : ms[i].type # "system"
    /\ Paired(ms)

\* C16: from the iteration limit until the next ask, the history the caller
\* holds is valid (it starts with the one system message and has no tool-call
\* request without its results), and the next ask on it starts a normal turn:
\* a fresh iteration count and a valid conversation that ends with the prompt.
C16_ResumableAfterLimit ==
    /\ [](outcome = IterationLimitError => ValidHistory(history))
    /\ [][ (outcome = IterationLimitError /\ pc # "loop" /\ pc' = "loop") =>
             /\ n_iterations' = 0
             /\ n_invocations' = 0
             /\ outcome' = NoOutcome
             /\ ValidHistory(messages')
             /\ messages'[Len(messages')] = HumanMessage(<< query' >>)
             /\ SubSeq(messages', 1, Len(history')) = history' ]_vars

\* a turn that returned the answer, after the turn before it had ended with the
\* iteration limit (the history holds two prompts and no answer yet)
C16_Witness ==
    /\ pc = "ended"
    /\ outcome = Returned(<< "answer" >>)
    /\ HumanCount(history) = 2
    /\ \A i \in 1..Len(history) : history[i].type # "ai"
    /\ displayed = << "Error processing your request: " \o IterationLimitText >>

\* the results of the requests of the assistant message resp, as found in ms
\* after position k: one tool message per request, tagged in the same order
ResultsOf(resp, ms, k) ==
    /\ Len(ms) = k + Len(resp.tool_calls)
    /\ \A j \in 1..Len(resp.tool_calls) :
          /\ ms[k + j].type = "tool"
          /\ ms[k + j].tool_call_id = resp.tool_calls[j].id

\* C21: the first model invocation of a turn is handed the caller's history
\* followed by the turn's user message; every later invocation of the turn is
\* handed the sequence of the invocation before it, unchanged, followed by that
\* invocation's assistant response and one tool result per request of it; and
\* between invocations the sequence ask holds only grows at its end.
C21_HistoryGrowsByAppending ==
    /\ [][ (n_invocations' = 1 /\ n_invocations = 0)
              => invoked_with' = Append(history, HumanMessage(<< query >>)) ]_vars
    /\ [][ (n_invocations' = n_invocations + 1 /\ n_invocations >= 1)
              => /\ Len(invoked_with') > Len(invoked_with)
                 /\ SubSeq(invoked_with', 1, Len(invoked_with)) = invoked_with
                 /\ invoked_with'[Len(invoked_with) + 1] = response
                 /\ Len(response.tool_calls) >= 1
                 /\ ResultsOf(response, invoked_with', Len(invoked_with) + 1) ]_vars
    /\ [][ (pc \in {"loop", "dispatch"} /\ pc' \in {"loop", "dispatch"})
              => /\ Len(messages') \in { Len(messages), Len(messages) + 1 }
                 /\ SubSeq(messages', 1, Len(messages)) = messages ]_vars

\* the second invocation of a turn, handed the system message, the user message,
\* the first response with its two requests and their two results
C21_Witness ==
    /\ n_invocations = 2
    /\ Len(invoked_with) = 5
    /\ invoked_with[3] = response
    /\ Len(response.tool_calls) = 2
    /\ invoked_with[5].tool_call_id = response.tool_calls[2].id

\* what the engine did with the statement of the latest scope
ScopeEngine == Execute(last_scope.stmt, last_scope.before)

\* the latest scope was entered: the connection was made and the body ran
ScopeEntered == last_scope.opened /\ last_scope.events # <<>>

\* position of the call e in ev (0 when it was not made)
IndexOf(ev, e) == IF Count(ev, e) = 0 THEN 0 ELSE CHOOSE i \in 1..Len(ev) : ev[i] = e

\* C22: a scope opened non-readonly commits exactly once (and never rolls back)
\* when its body ends normally, making the body's changes durable, and rolls back
\* exactly once (and never commits) when its body fails, before the connection
\* is closed; a scope opened readonly neither commits nor rolls back; and a
\* failure of the body always leaves the scope as the exception, with the
\* engine's message.
C22_TransactionDiscipline ==
    ScopeEntered =>
       LET ev == last_scope.events IN
       /\ (~last_scope.readonly /\ ScopeEngine.ok)
             => /\ Count(ev, "commit") = 1
                /\ Count(ev, "rollback") = 0
                /\ IndexOf(ev, "execute") < IndexOf(ev, "commit")
                /\ last_scope.after = ScopeEngine.pending
       /\ (~last_scope.readonly /\ ~ScopeEngine.ok)
             => /\ Count(ev, "rollback") = 1
                /\ Count(ev, "commit") = 0
                /\ IndexOf(ev, "execute") < IndexOf(ev, "rollback")
                /\ IndexOf(ev, "rollback") < IndexOf(ev, "conn.close")
                /\ last_scope.after = ScopeEngine.durable
       /\ last_scope.readonly
             => /\ Count(ev, "commit") = 0
                /\ Count(ev, "rollback") = 0
                /\ last_scope.after = ScopeEngine.durable
       /\ ScopeEngine.ok
             => (last_scope.raised = "" /\ last_scope.rows = ScopeEngine.rows)
       /\ ~ScopeEngine.ok
             => (last_scope.raised = "sqlite3.Error" /\ last_scope.err = ScopeEngine.err)

\* a non-readonly scope whose statement failed after writing a row: the row was
\* rolled back and the failure left the scope
C22_Witness ==
    /\ ScopeEntered
    /\ ~last_scope.readonly
    /\ ~ScopeEngine.ok
    /\ ScopeEngine.pending # last_scope.before
    /\ last_scope.after = last_scope.before
    /\ last_scope.raised = "sqlite3.Error"
    /\ driver_calls = 2

\* ms holds exactly one system message, and it is the first element
OneSystemFirst(ms) ==
    /\ Len(ms) >= 1
    /\ ms[1].type = "system"
    /\ \A i \in 2..Len(ms) : ms[i].type # "system"

\* C23: the history of the chat (made by create_history or by load_session, and
\* appended to by the chat), every history load_session returned, the sequence
\* ask holds and every sequence it hands to the model hold exactly one system
\* message, as their first element; no stored conversation holds a system
\* message; and no step removes the head of the history or puts a message
\* before it.
C23_OneSystemMessageFirst ==
    /\ [](OneSystemFirst(history) /\ history[1] = SystemMessage(SYSTEM_PROMPT))
    /\ [](\A i \in 1..Len(db_calls) : OneSystemFirst(db_calls[i].history))
    /\ [](pc \in {"loop", "dispatch"} => OneSystemFirst(messages))
    /\ [](n_invocations > 0 => OneSystemFirst(invoked_with))
    /\ [](\A row \in conversations_db.rows :
             \A i \in 1..Len(row.conversation_json) :
                row.conversation_json[i].type # "SystemMessage")
    /\ [][ history'[1] = history[1] ]_vars

\* the model is invoked on a history that load_session built from a stored
\* conversation with a question and its answer
C23_Witness ==
    /\ n_invocations = 1
    /\ Len(db_calls) >= 1
    /\ Len(db_calls[Len(db_calls)].history) = 3
    /\ SubSeq(invoked_with, 1, 3) = db_calls[Len(db_calls)].history
    /\ invoked_with[3].type = "ai"

\* a step taken by ask or by call_tool: the loop or the dispatcher is at work and
\* its state changes
AskStep ==
    /\ pc \in {"loop", "dispatch"}
    /\ << pc, messages, n_invocations, call_index, outcome, last_call >>'
         # << pc, messages, n_invocations, call_index, outcome, last_call >>

\* C24: no step of ask or of call_tool (a model invocation that returns or
\* fails, a tool call that returns or raises, the iteration limit) changes the
\* database handle; whenever a tool call has been made in the CLI, the handle is
\* still the one the call was made on.
C24_HandleOnlyRead ==
    /\ [][ AskStep => DATABASE_PATH' = DATABASE_PATH ]_vars
    /\ [](Called => DATABASE_PATH = last_call.path)

\* ask was ended by a tool call that raised, on a handle whose file is missing
C24_Witness ==
    /\ pc = "ended"
    /\ outcome.kind = "raise"
    /\ outcome.value[1] \in { "KeyError", "ValidationError" }
    /\ last_call.raised = outcome.value[1]
    /\ file.kind = "absent"
    /\ DATABASE_PATH = "data.db"

UserIds(users) == { row.user_id : row \in users }

\* the smallest positive n such that QMn is the id of no row of users
SmallestFree(users) ==
    CHOOSE n \in 1..(Cardinality(users) + 1) :
       /\ ("QM" \o NatStr(n)) \notin UserIds(users)
       /\ \A m \in 1..(n - 1) : ("QM" \o NatStr(m)) \in UserIds(users)

\* C25: on every users table, get_next_user_id is QM followed by the smallest
\* positive number whose id is not in use; every registration that succeeds
\* adds exactly one row, under that id, which no row had before, so that no
\* two users ever share an id.
C25_NextUserId ==
    /\ [](get_next_user_id(users_db) = "QM" \o NatStr(SmallestFree(users_db)))
    /\ [](get_next_user_id(users_db) \notin UserIds(users_db))
    /\ [](\A r1 \in users_db : \A r2 \in users_db : r1.user_id = r2.user_id => r1 = r2)
    /\ [][ \A row \in users_db' \ users_db :
              /\ row.user_id = "QM" \o NatStr(SmallestFree(users_db))
              /\ row.user_id \notin UserIds(users_db)
              /\ users_db' = users_db \cup { row } ]_vars

\* QM1 was deleted while QM2 exists, and the next registration was handed QM1
C25_Witness ==
    /\ Len(db_calls) = 2
    /\ db_calls[1].op = "delete_user"
    /\ db_calls[1].argument = "QM1"
    /\ db_calls[2].op = "register_user"
    /\ db_calls[2].returned
    /\ UserIds(db_calls[2].users_before) = { "QM2" }
    /\ UserIds(users_db) = { "QM1", "QM2" }

\* the rows of user u in a users table
AccountOf(users, u) == { row \in users : row.user_id = u }

\* C26: after a delete_user(u) that returned True there is no users row and no
\* sessions row of u; after one that returned False the users row of u and the
\* sessions rows of u are what they were before the call.
C26_DeleteAllOrNothing ==
    \A i \in 1..Len(db_calls) :
       db_calls[i].op = "delete_user" =>
          LET c == db_calls[i]
              u == c.argument
          IN IF c.returned
             THEN /\ AccountOf(c.users_after, u) = {}
                  /\ SessionsOf(c.after, u) = {}
             ELSE /\ AccountOf(c.users_after, u) = AccountOf(c.users_before, u)
                  /\ SessionsOf(c.after, u) = SessionsOf(c.before, u)

\* the row of session session_id when it belongs to user u
OwnRows(db, session_id, u) ==
    { row \in db.rows : row.session_id = session_id /\ row.user_id = u }

\* C27: a call of save_session, load_session, delete_session or list_sessions
\* made while user u is logged in leaves the sessions rows of every other user
\* as they were; load_session returns the conversation of u's own row with the
\* given id, and the bare initial history when u has no such row; list_sessions
\* returns rows of u only.  A call made by a guest leaves the table as it was
\* and returns nothing of it.
C27_SessionOwnership ==
    \A i \in 1..Len(db_calls) :
       LET c == db_calls[i]
           u == c.st.user_id
       IN IF c.st.is_guest
          THEN /\ c.after = c.before
               /\ c.op = "load_session" => c.history = create_history
               /\ c.op = "list_sessions" => c.returned = {}
               /\ c.op = "save_session" => c.returned = NoSessionId
          ELSE /\ \A a \in Users \ { u } : SessionsOf(c.after, a) = SessionsOf(c.before, a)
               /\ c.op = "load_session" =>
                     IF OwnRows(c.before, c.session_id, u) = {}
                     THEN c.history = create_history
                     ELSE \/ c.history = create_history
                          \/ \E row \in OwnRows(c.before, c.session_id, u) :
                                c.history = create_history \o deserialized(row.conversation_json)
               /\ c.op = "list_sessions" =>
                     \A listed \in c.returned :
                        \E row \in SessionsOf(c.before, u) :
                           listed = << row.session_id, row.title >>

\* QM2 asked for QM1's session 1, first to load it and then to delete it, the
\* database working: the load gave the bare history and the row is still there
C27_Witness ==
    /\ Len(db_calls) = 2
    /\ db_calls[1].op = "load_session"
    /\ db_calls[2].op = "delete_session"
    /\ \A i \in 1..2 : /\ db_calls[i].st.user_id = "QM2"
                       /\ db_calls[i].session_id = 1
                       /\ db_calls[i].engine_ok
    /\ db_calls[1].history = create_history
    /\ OwnRows(conversations_db, 1, "QM1") # {}

(* C28: in every run of the web script the code after the gate runs only in a
   session that is authenticated and whose force_login_page is not set; logout
   leaves no key of the session but the two flags it sets, and the run that
   follows shows the login page and stops at the gate. *)
C28_AuthenticationGate ==
    /\ [](pc = "body" =>
             Get(session_state, "authenticated") /\ ~Get(session_state, "force_login_page"))
    /\ [][(pc = "body" /\ clicked.widget = "Logout") =>
             /\ DOMAIN session_state' = { "authenticated", "force_login_page" }
             /\ ~session_state'["authenticated"]
             /\ session_state'["force_login_page"]
             /\ pc' = "gate"]_vars
    /\ [][(pc = "gate" /\ displayed = << "Logging out..." >>) =>
             /\ displayed' = LoginPage
             /\ pc' = "idle"
             /\ ~Get(session_state', "authenticated")]_vars

\* a registered user has logged in and out again, the login page is on display
C28_Witness ==
    /\ pc = "idle"
    /\ displayed = LoginPage
    /\ conversations_db.rows # {}
    /\ "is_guest" \notin DOMAIN session_state
    /\ ~Get(session_state, "force_login_page")

(* C29: in the web front end the message sequence of a turn's first model
   invocation ends with one user message holding the prompt: the message before
   it is not a second copy of the prompt. *)
C29_PromptOnce ==
    (n_invocations = 1 /\ Len(invoked_with) >= 2) =>
        /\ invoked_with[Len(invoked_with)] = HumanMessage(<< query >>)
        /\ invoked_with[Len(invoked_with) - 1] # HumanMessage(<< query >>)

(* C30: a newly registered user starts with no chat sessions: whatever
   registrations, saves and account deletions came before, list_sessions for
   the account just created returns nothing. *)
C30_NewAccountHasNoSessions ==
    [][\A row \in users_db' \ users_db :
          list_sessions(UserState(row.user_id), conversations_db', TRUE) = {}]_vars

====
